---- MODULE Spec2Model ----
(***************************************************************************)
(* Query execution and federation layer of the OCI Log Analytics MCP       *)
(* server: OCILogAnalyticsClient.query, its scatter/gather over the        *)
(* compartments of the tenancy, the single-compartment query with its      *)
(* rate-limit retry, and the response normalisation.                       *)
(***************************************************************************)
EXTENDS Integers, Sequences, FiniteSets, TLC

\* ------------------------------------------------------------------------
\* Bounds of the model
\* ------------------------------------------------------------------------
\* pages of the compartment listing the identity service serves at most
MaxPages == 2
\* compartments the whole listing holds at most
MaxListed == 2
\* rate-limit (429) responses the backend gives during one query() call
MaxThrottled == 1
\* 429 answers to one single-scope query() call where its retries are followed
MaxAttempts == 7
\* the latest instant a _make_cache_key argument names
MaxKeyInstant == 2
\* execute calls started in one run of the engine
MaxExecutes == 2
\* clock ticks that pass in one run of the engine
MaxTicks == 2
\* tasks that use one RateLimiter
MaxCallers == 2
\* ticks of the limiter's clock that are followed
MaxElapsed == 12
\* ticks of the limiter's clock that are followed through backoff sleeps
MaxSlept == 350
\* keys of each cache category that are followed
MaxKeys == 1
\* values stored in the cache
MaxValues == 2
\* ticks of the cache's clock that are followed
MaxAge == 4
\* the largest custom TTL passed to set, in ticks
MaxTtl == 2
\* the last tick of the cache's clock at which a batch of results is stored
MaxBatchAt == 2
\* items of the response whose normalisation is followed
MaxItems == 2
\* values of one backend row
MaxWidth == 3

\* ------------------------------------------------------------------------
\* Program constants
\* ------------------------------------------------------------------------
\* RateLimiter.__init__ default max_retries (the client builds RateLimiter())
max_retries == 5
\* The limiter's clock counts ticks of 100 ms.
\* RateLimiter.__init__ default initial_delay = 1.0 s
initial_delay == 10
\* RateLimiter.__init__ default max_delay = 30.0 s
max_delay == 300
\* RateLimiter.min_interval = 1.0 / requests_per_second = 0.1 s
min_interval == 1
\* QueryConfig.max_results default (settings.query.max_results)
default_max_results == 1000
\* The clock counts ticks of five minutes.
\* CacheManager._query_ttl = query_ttl_minutes * 60 seconds: one tick
_query_ttl == 1
\* CacheManager._schema_ttl = schema_ttl_minutes * 60 seconds: three ticks
_schema_ttl == 3
\* CacheManager.set cleans up when the category holds more entries than this
cleanup_threshold == 100
\* QueryLogger._max_recent
_max_recent == 100
\* the clock when the server starts
Epoch == 12

\* ------------------------------------------------------------------------
\* Values
\* ------------------------------------------------------------------------
\* An OCID is the sequence of its dot-separated segments.
TenancyOcid == <<"ocid1", "tenancy", "oc1", "t">>
CompartmentA == <<"ocid1", "compartment", "oc1", "a">>
CompartmentB == <<"ocid1", "compartment", "oc1", "b">>
\* the compartments under the tenancy, which is what list_compartments lists
\* (the root compartment is not a member of its own listing)
Compartments == {CompartmentA, CompartmentB}
\* the scopes the client can be pointed at
Ocids == {TenancyOcid} \cup Compartments
\* the namespace of the settings, and the one set_namespace changes to
Namespaces == {"ns1", "ns2"}
SettingsNamespace == "ns1"

\* Python None / a present value v, as a sequence of length 0 / 1
None == <<>>
Some(v) == <<v>>

\* A string is the sequence of its tokens; ":" is a token of its own.
\* datetime.isoformat() of the instant t (a number of clock ticks)
IsoFormat(t) == <<ToString(t), ":", "00">>

\* the instants a time string can name
Instants == 0..23

\* the digits each instant is written with
InstantDigits == [t \in Instants |-> ToString(t)]

\* datetime.fromisoformat(s.replace("Z", "+00:00")): None stands for ValueError
FromIso(s) ==
    IF /\ Len(s) = 3
       /\ s[2] = ":"
       /\ s[3] = "00"
       /\ \E t \in Instants : InstantDigits[t] = s[1]
    THEN Some(CHOOSE t \in Instants : InstantDigits[t] = s[1])
    ELSE None

\* sequences over S of length at most n
SeqUpTo(S, n) == UNION {[1..k -> S] : k \in 0..n}

\* ocid.startswith("ocid1.tenancy.")
_is_tenancy_ocid(ocid) ==
    /\ Len(ocid) >= 3
    /\ ocid[1] = "ocid1"
    /\ ocid[2] = "tenancy"

\* ------------------------------------------------------------------------
\* Backend responses (oci.log_analytics QueryAggregation) and normalisation
\* ------------------------------------------------------------------------
\* one column of the parsed result
ParseColumn(col) ==
    [name |-> IF col.display_name # None THEN col.display_name[1] ELSE col.internal_name,
     internal_name |-> col.internal_name,
     type |-> col.value_type]

\* one element of data.items.  shape says how the row's values are carried:
\*   "list"     object whose .values attribute is a list/tuple
\*   "accessor" object whose .values is a zero-argument callable
\*   "dict"     a plain dict (its .values is the bound method dict.values)
\*   "scalar"   object whose .values attribute is neither callable nor a list
\*   "opaque"   object without a .values attribute that is not a dict
\*   "sequence" a plain list or tuple of the values: it has no .values
\*              attribute and is not a dict
ItemShapes == {"list", "accessor", "dict", "scalar", "opaque", "sequence"}

\* rows.append(...) of one item: the sequence of rows the item contributes
ParseItem(item) ==
    CASE item.shape = "accessor" -> << item.values >>
      [] item.shape = "dict"     -> << item.values >>
      [] item.shape = "list"     -> << item.values >>
      [] item.shape = "scalar"   -> << << item.values >> >>
      [] OTHER                   -> << >>

RECURSIVE ParseItems(_)
ParseItems(items) ==
    IF items = <<>> THEN <<>>
    ELSE ParseItem(Head(items)) \o ParseItems(Tail(items))

RECURSIVE ParseColumns(_)
ParseColumns(cols) ==
    IF cols = <<>> THEN <<>>
    ELSE <<ParseColumn(Head(cols))>> \o ParseColumns(Tail(cols))

\* data: [has_columns, columns, has_items, items, has_total_count, total_count,
\*        has_is_partial_result, is_partial_result]; has_x is hasattr(data, x),
\* columns/items are None or a sequence, total_count is None or Some(n),
\* is_partial_result is None or Some(b).
_parse_query_response(data) ==
    LET columns == IF data.has_columns /\ data.columns # None
                   THEN ParseColumns(data.columns) ELSE <<>>
        rows == IF data.has_items /\ data.items # None
                THEN ParseItems(data.items) ELSE <<>>
    IN [columns |-> columns,
        rows |-> rows,
        total_count |-> IF data.has_total_count THEN data.total_count
                        ELSE Some(Len(rows)),
        is_partial |-> IF data.has_is_partial_result THEN data.is_partial_result
                       ELSE Some(FALSE)]

\* the responses the backend gives to a query against compartment cid
BackendData(cid) ==
    { [has_columns |-> TRUE, columns |-> cols,
       has_items |-> TRUE, items |-> items,
       has_total_count |-> TRUE, total_count |-> tc,
       has_is_partial_result |-> TRUE, is_partial_result |-> Some(p)] :
        cols \in { <<>>, << [display_name |-> Some("Count"), internal_name |-> cid[4],
                            value_type |-> "LONG"] >> },
        items \in { <<>>, << [shape |-> "list", values |-> <<cid[4], "1">>] >> },
        tc \in { None, Some(2) },
        p \in BOOLEAN }

\* HTTP statuses of the hard backend errors (NotAuthorized, NotFound)
ErrorStatuses == {404}

\* ------------------------------------------------------------------------
\* State
\* ------------------------------------------------------------------------
VARIABLES
    _compartment_id,          \* OCILogAnalyticsClient._compartment_id
    _retry_count,             \* RateLimiter._retry_count
    _backoff_until,           \* RateLimiter._backoff_until: None, or Some(when):
                              \* "set" where the clock is not followed
    pc,                       \* position of the query() call in progress
    args,                     \* query_string, time_start, time_end, max_results of the call
    scope,                    \* the compartment the call in progress is about
    include_subcompartments,  \* argument of the query() call in progress
    mode,                     \* who awaits the single query: "direct", "fallback", "loop"
    listing,                  \* compartment listing: "none", "more", "drained", "failed"
    list_requests,            \* list_compartments requests made by this call
    compartments,             \* _get_all_compartments: the list built so far
    idx,                      \* loop position in compartments (1-based), 0 outside the loop
    all_columns, all_rows, total_count, is_partial,
    successful_queries, failed_queries,
    target,                   \* compartment_id / include_subcompartments of the single query
    throttled,                \* 429 responses received by this call
    acquires,                 \* acquire() calls of _execute_single_query that have
                              \* returned to this call
    sent,                     \* requests handed to la_client.query by this call, in order
    calls,                    \* single queries started by query()/the federator, with outcome
    outcome                   \* what query() hands to its caller

VARIABLES
    now,                      \* the clock: time.time(), datetime.now()
    _enabled,                 \* CacheManager._enabled
    _query_cache,             \* CacheManager._query_cache: key -> entry
    _recent_queries,          \* QueryLogger._recent_queries, newest first
    tasks,                    \* the execute() coroutines of the execute_batch call
    owner,                    \* the task whose oci_client.query call is in progress, or 0
    results,                  \* what execute_batch returned
    executed                  \* execute calls started so far

VARIABLES
    key_args,                 \* _make_cache_key: the argument tuples of two calls
    keys                      \* _make_cache_key: what the two calls returned

VARIABLES
    time,                     \* time.time() as the limiter reads it
    _last_request_time,       \* RateLimiter._last_request_time
    _lock,                    \* RateLimiter._lock: its holder (0 = free) and its waiters
    callers,                  \* the tasks using the limiter: where each is suspended
    acquired,                 \* the times at which the last two acquire() calls returned
    delays                    \* the delays of the handle_rate_limit() calls made
                              \* since the retry count was last set to 0

VARIABLES
    _schema_cache,            \* CacheManager._schema_cache: key -> entry
    returned,                 \* the last call of the CacheManager and what it returned
    entered                   \* per category and key, the last set() call that was
                              \* not followed by a delete or clear of the key

VARIABLES
    raw_items,                \* _parse_query_response: data.items of the response
                              \* under observation
    parsed_rows,              \* _parse_query_response: the rows made of raw_items
    _namespace                \* client: the Log Analytics namespace requests name

rate_limiter == <<_retry_count, _backoff_until>>
federation == <<listing, list_requests, compartments, idx, all_columns, all_rows,
                total_count, is_partial, successful_queries, failed_queries>>
client_vars == <<_compartment_id, rate_limiter, pc, args, scope,
                 include_subcompartments, mode, federation, target, throttled, acquires,
                 sent, calls, outcome>>
key_vars == <<key_args, keys>>
engine_vars == <<now, _enabled, _query_cache, _recent_queries, tasks, owner,
                 results, executed>>
limiter_vars == <<time, _last_request_time, _lock, callers, acquired, delays>>
cache_vars == <<_schema_cache, returned, entered>>
parse_vars == <<raw_items, parsed_rows>>
context_vars == <<_namespace>>
vars == <<client_vars, key_vars, engine_vars, limiter_vars, cache_vars, parse_vars, context_vars>>
\* what the client does not touch
beside_client == <<key_vars, engine_vars, limiter_vars, cache_vars, parse_vars, context_vars>>

NoTarget == [compartment_id |-> <<>>, include_subcompartments |-> FALSE]
NoArgs == [query_string |-> <<>>, time_start |-> <<>>, time_end |-> <<>>,
           max_results |-> None, compartment_id |-> None]
NoOutcome == [kind |-> "none"]

\* the locals of a query() call before it starts
CallLocals ==
    /\ args = NoArgs
    /\ scope = None
    /\ include_subcompartments = FALSE
    /\ mode = "none"
    /\ listing = "none"
    /\ list_requests = 0
    /\ compartments = <<>>
    /\ idx = 0
    /\ all_columns = <<>>
    /\ all_rows = <<>>
    /\ total_count = 0
    /\ is_partial = FALSE
    /\ successful_queries = 0
    /\ failed_queries = 0
    /\ target = NoTarget
    /\ throttled = 0
    /\ acquires = 0
    /\ sent = <<>>
    /\ calls = <<>>
    /\ outcome = NoOutcome

\* no _make_cache_key call under observation
NoKeys ==
    /\ key_args = <<>>
    /\ keys = <<>>

\* the engine, its cache and its logger after construction
EngineStart ==
    /\ now = Epoch
    /\ _query_cache = [k \in {} |-> None]
    /\ _recent_queries = <<>>
    /\ tasks = <<>>
    /\ owner = 0
    /\ results = None
    /\ executed = 0

\* a task that is not suspended in the limiter; error is the exception its
\* last call of the limiter ended with
Running == [pc |-> "running", wake |-> 0, error |-> None]

\* a task suspended at position p until the clock reads wake
Suspended(p, wake) == [pc |-> p, wake |-> wake, error |-> None]

\* the rest of the limiter after __init__, its clock and the tasks using it
LimiterStart ==
    /\ time = Epoch
    /\ _last_request_time = 0
    /\ _lock = [holder |-> 0, waiters |-> <<>>]
    /\ callers = [i \in 1..MaxCallers |-> Running]
    /\ acquired = <<>>
    /\ delays = <<>>

\* no response under observation
NoItems ==
    /\ raw_items = <<>>
    /\ parsed_rows = None

\* the categories of the CacheManager
Categories == {"query", "schema"}

\* the category arguments that are followed: the two categories and a name
\* that is neither
Names == Categories \cup {"metadata"}

\* the rest of the CacheManager after __init__, before any call of it
CacheStart ==
    /\ _schema_cache = [k \in {} |-> None]
    /\ returned = [op |-> "none"]
    /\ entered = [c \in Names |-> [k \in 1..MaxKeys |-> None]]

\* the client after __init__, pointed at compartment ocid
ClientInit(ocid) ==
    /\ _compartment_id = ocid
    /\ _namespace = SettingsNamespace
    /\ _retry_count = 0
    /\ _backoff_until = None
    /\ pc = "idle"
    /\ CallLocals

Init ==
    /\ \E ocid \in Ocids : ClientInit(ocid)
    /\ NoKeys
    /\ EngineStart
    /\ LimiterStart
    /\ CacheStart
    /\ NoItems
    /\ _enabled = TRUE

\* ------------------------------------------------------------------------
\* The compartment setter
\* ------------------------------------------------------------------------
SetCompartment(value) ==
    /\ pc = "idle"
    /\ _compartment_id' = value
    /\ UNCHANGED <<rate_limiter, pc, args, scope, include_subcompartments, mode,
                   federation, target, throttled, acquires, sent, calls, outcome>>
    /\ UNCHANGED beside_client

\* ------------------------------------------------------------------------
\* query(): the choice between one single query and the scatter/gather
\* ------------------------------------------------------------------------
\* faulty variant of Federates: hands over when either condition holds
Federates_OnEitherCondition(flag, ocid) == flag \/ _is_tenancy_ocid(ocid)

\* the condition under which query() hands over to _query_all_compartments
Federates(flag, ocid) == flag /\ _is_tenancy_ocid(ocid)

\* the compartment a query() call is about.  query() has no compartment_id
\* parameter: is_tenancy and the single query read self._compartment_id, so
\* the compartment_id the engine names in its call does not take part
ClientScope(compartment_id, default) == default

\* query(query_string, time_start, time_end, max_results,
\*       include_subcompartments, compartment_id), the arguments but the flag in a
Query(flag, a) ==
    /\ pc = "idle"
    /\ args' = a
    /\ scope' = Some(ClientScope(a.compartment_id, _compartment_id))
    /\ include_subcompartments' = flag
    /\ IF Federates(flag, scope'[1])
       THEN /\ pc' = "list"
            /\ mode' = "federated"
            /\ target' = NoTarget
       ELSE /\ pc' = "single"
            /\ mode' = "direct"
            /\ target' = [compartment_id |-> scope'[1],
                          include_subcompartments |-> flag]
    /\ UNCHANGED <<_compartment_id, rate_limiter, federation, throttled, acquires, sent,
                   calls, outcome>>

\* ------------------------------------------------------------------------
\* _get_all_compartments and the start of _query_all_compartments
\* ------------------------------------------------------------------------
\* faulty variant of FirstTarget: the fallback drops include_subcompartments
FirstTarget_FlagDropped(comps, root) ==
    IF comps = <<>>
    THEN [compartment_id |-> root, include_subcompartments |-> FALSE]
    ELSE [compartment_id |-> comps[1], include_subcompartments |-> FALSE]

\* what _query_all_compartments does with the list _get_all_compartments returned:
\* the first single query it starts
FirstTarget(comps, root) ==
    IF comps = <<>>
    THEN [compartment_id |-> root, include_subcompartments |-> TRUE]
    ELSE [compartment_id |-> comps[1], include_subcompartments |-> FALSE]

StartQueries(comps) ==
    /\ pc' = "single"
    /\ mode' = IF comps = <<>> THEN "fallback" ELSE "loop"
    /\ idx' = IF comps = <<>> THEN 0 ELSE 1
    /\ target' = FirstTarget(comps, scope[1])

\* one list_compartments request answered with a page; the requests after the
\* first are each preceded by _rate_limiter.acquire()
ListPage(page, has_next_page) ==
    /\ pc = "list"
    /\ has_next_page => list_requests + 1 < MaxPages
    /\ Len(compartments) + Len(page) <= MaxListed
    /\ list_requests' = list_requests + 1
    /\ compartments' = compartments \o page
    /\ _backoff_until' = IF list_requests > 0 THEN None ELSE _backoff_until
    /\ IF has_next_page
       THEN /\ listing' = "more"
            /\ UNCHANGED <<pc, mode, idx, target>>
       ELSE /\ listing' = "drained"
            /\ StartQueries(compartments')
    /\ UNCHANGED <<_compartment_id, _retry_count, args, scope,
                   include_subcompartments, all_columns, all_rows, total_count, is_partial,
                   successful_queries, failed_queries, throttled, acquires, sent, calls,
                   outcome>>
    /\ UNCHANGED beside_client

\* one list_compartments request that raises: the except clause logs a warning
\* and the list built so far is returned
ListFails ==
    /\ pc = "list"
    /\ list_requests' = list_requests + 1
    /\ _backoff_until' = IF list_requests > 0 THEN None ELSE _backoff_until
    /\ listing' = "failed"
    /\ StartQueries(compartments)
    /\ UNCHANGED <<_compartment_id, _retry_count, args, scope,
                   include_subcompartments, compartments, all_columns, all_rows, total_count, is_partial,
                   successful_queries, failed_queries, throttled, acquires, sent, calls,
                   outcome>>
    /\ UNCHANGED beside_client

\* ------------------------------------------------------------------------
\* The loop of _query_all_compartments
\* ------------------------------------------------------------------------
Acc == [all_columns |-> all_columns, all_rows |-> all_rows,
        total_count |-> total_count, is_partial |-> is_partial,
        successful_queries |-> successful_queries,
        failed_queries |-> failed_queries]

\* Python truth of result.get("is_partial", False)
Truthy(opt) == opt = Some(TRUE)

\* the try block after a single query returned result.  total_count += None
\* raises TypeError after the columns and rows were taken; the except clause
\* then counts the compartment as failed.
MergeScope(acc, result) ==
    LET cols == IF acc.all_columns = <<>> /\ result.columns # <<>>
                THEN result.columns ELSE acc.all_columns
        rows == acc.all_rows \o result.rows
    IN IF result.total_count = None
       THEN [acc EXCEPT !.all_columns = cols, !.all_rows = rows,
                        !.failed_queries = @ + 1]
       ELSE [all_columns |-> cols,
             all_rows |-> rows,
             total_count |-> acc.total_count + result.total_count[1],
             is_partial |-> acc.is_partial \/ Truthy(result.is_partial),
             successful_queries |-> acc.successful_queries + 1,
             failed_queries |-> acc.failed_queries]

\* faulty variant of ScopeRaised: the failure is skipped without being counted
ScopeRaised_NotCounted(acc) == acc

\* the except clause when the single query itself raised
ScopeRaised(acc) == [acc EXCEPT !.failed_queries = @ + 1]

\* the dictionary _query_all_compartments returns
FederatedResult(acc) ==
    [columns |-> acc.all_columns,
     rows |-> acc.all_rows,
     total_count |-> acc.total_count,
     is_partial |-> acc.is_partial,
     cross_compartment_query |-> TRUE,
     compartments_queried |-> acc.successful_queries,
     compartments_failed |-> acc.failed_queries]

NoError == [type |-> "none", status |-> 0]
NoResult == [columns |-> <<>>, rows |-> <<>>, total_count |-> None, is_partial |-> None]
Returned(result) == [raised |-> FALSE, error |-> NoError, result |-> result]
Raised(type, status) ==
    [raised |-> TRUE, error |-> [type |-> type, status |-> status], result |-> NoResult]

\* faulty variant of NextTarget: the sub-query asks for the subtree as well
NextTarget_WithSubtree(comps, k) ==
    [compartment_id |-> comps[k + 1], include_subcompartments |-> TRUE]

\* the compartment the loop queries after position k
NextTarget(comps, k) ==
    [compartment_id |-> comps[k + 1], include_subcompartments |-> FALSE]

\* what happens with the outcome o of the single query in progress
Deliver(o) ==
    /\ calls' = Append(calls, [compartment_id |-> target.compartment_id,
                               include_subcompartments |-> target.include_subcompartments,
                               raised |-> o.raised, error |-> o.error,
                               result |-> o.result])
    /\ IF mode = "loop"
       THEN LET acc == IF o.raised THEN ScopeRaised(Acc) ELSE MergeScope(Acc, o.result)
            IN /\ all_columns' = acc.all_columns
               /\ all_rows' = acc.all_rows
               /\ total_count' = acc.total_count
               /\ is_partial' = acc.is_partial
               /\ successful_queries' = acc.successful_queries
               /\ failed_queries' = acc.failed_queries
               /\ IF idx = Len(compartments)
                  THEN /\ pc' = "done"
                       /\ outcome' = [kind |-> "return", error |-> NoError,
                                      result |-> FederatedResult(acc)]
                       /\ UNCHANGED <<idx, target>>
                  ELSE /\ idx' = idx + 1
                       /\ target' = NextTarget(compartments, idx)
                       /\ UNCHANGED <<pc, outcome>>
       ELSE /\ pc' = "done"
            /\ outcome' = IF o.raised
                          THEN [kind |-> "raise", error |-> o.error, result |-> NoResult]
                          ELSE [kind |-> "return", error |-> NoError, result |-> o.result]
            /\ UNCHANGED <<idx, target, all_columns, all_rows, total_count,
                           is_partial, successful_queries, failed_queries>>
    /\ UNCHANGED <<_compartment_id, args, scope, include_subcompartments, mode,
                   listing, list_requests, compartments>>

\* ------------------------------------------------------------------------
\* _execute_single_query: one attempt = acquire(), one request, its answer
\* ------------------------------------------------------------------------
\* the request of the attempt in progress, kept with the status of its answer
\* max_results or self.settings.query.max_results
Cap(max_results) ==
    IF max_results = None \/ max_results = Some(0)
    THEN default_max_results ELSE max_results[1]

\* the QueryDetails of the attempt in progress, kept with the status of its answer
Request(status) ==
    [compartment_id |-> target.compartment_id,
     compartment_id_in_subtree |-> target.include_subcompartments,
     query_string |-> args.query_string,
     time_start |-> FromIso(args.time_start),
     time_end |-> FromIso(args.time_end),
     max_total_count |-> Cap(args.max_results),
     status |-> status]

\* a client that returns the parsed response without reset()
Answer_NoReset(data) ==
    /\ acquires' = acquires + 1
    /\ sent' = Append(sent, Request(200))
    /\ _backoff_until' = None
    /\ UNCHANGED <<_retry_count, throttled>>
    /\ Deliver(Returned(_parse_query_response(data)))

\* the backend answers with data: reset() and the parsed response is returned
Answer(data) ==
    /\ acquires' = acquires + 1
    /\ sent' = Append(sent, Request(200))
    /\ _backoff_until' = None
    /\ _retry_count' = 0
    /\ UNCHANGED throttled
    /\ Deliver(Returned(_parse_query_response(data)))

AttemptOk ==
    /\ pc = "single"
    /\ UNCHANGED beside_client
    /\ \E data \in BackendData(target.compartment_id) : Answer(data)

\* RateLimiter.handle_rate_limit: TRUE iff it raises (retries exhausted)
RetriesExhausted(count) == count + 1 > max_retries

\* a client that hands the 429 to its caller without a retry
Throttled_GivesUp(most) ==
    /\ pc = "single"
    /\ UNCHANGED beside_client
    /\ throttled < most
    /\ throttled' = throttled + 1
    /\ acquires' = acquires + 1
    /\ sent' = Append(sent, Request(429))
    /\ _backoff_until' = None
    /\ UNCHANGED _retry_count
    /\ Deliver(Raised("ServiceError", 429))

\* the backend answers 429: handle_rate_limit() and, unless it raised, the
\* recursive call, i.e. another attempt for the same target; the 429 answers
\* to one query() call that are followed are capped by most
Throttled(most) ==
    /\ pc = "single"
    /\ UNCHANGED beside_client
    /\ throttled < most
    /\ throttled' = throttled + 1
    /\ acquires' = acquires + 1
    /\ sent' = Append(sent, Request(429))
    /\ IF RetriesExhausted(_retry_count)
       THEN /\ _retry_count' = 0
            /\ _backoff_until' = None
            /\ Deliver(Raised("Exception", 429))
       ELSE /\ _retry_count' = _retry_count + 1
            /\ _backoff_until' = Some("set")
            /\ UNCHANGED <<_compartment_id, pc, args, scope,
                           include_subcompartments, mode, federation, target,
                           calls, outcome>>

AttemptThrottled == Throttled(MaxThrottled)

\* a client that treats every error status as a rate-limit response
AttemptError_BacksOff(status) ==
    /\ pc = "single"
    /\ UNCHANGED beside_client
    /\ acquires' = acquires + 1
    /\ sent' = Append(sent, Request(status))
    /\ _retry_count' = (_retry_count + 1) % (max_retries + 1)
    /\ _backoff_until' = Some("set")
    /\ UNCHANGED throttled
    /\ Deliver(Raised("ServiceError", status))

\* the backend answers with another error status: it propagates
AttemptError(status) ==
    /\ pc = "single"
    /\ UNCHANGED beside_client
    /\ acquires' = acquires + 1
    /\ sent' = Append(sent, Request(status))
    /\ _backoff_until' = None
    /\ UNCHANGED <<_retry_count, throttled>>
    /\ Deliver(Raised("ServiceError", status))

\* the caller of query() takes the outcome; the call's locals are gone
Return ==
    /\ pc = "done"
    /\ pc' = "idle"
    /\ args' = NoArgs
    /\ scope' = None
    /\ include_subcompartments' = FALSE
    /\ mode' = "none"
    /\ listing' = "none"
    /\ list_requests' = 0
    /\ compartments' = <<>>
    /\ idx' = 0
    /\ all_columns' = <<>>
    /\ all_rows' = <<>>
    /\ total_count' = 0
    /\ is_partial' = FALSE
    /\ successful_queries' = 0
    /\ failed_queries' = 0
    /\ target' = NoTarget
    /\ throttled' = 0
    /\ acquires' = 0
    /\ sent' = <<>>
    /\ calls' = <<>>
    /\ outcome' = NoOutcome
    /\ UNCHANGED <<_compartment_id, rate_limiter>>

\* query() called on the client alone
ClientQuery(flag, a) ==
    /\ Query(flag, a)
    /\ UNCHANGED beside_client

\* the caller of ClientQuery takes the outcome
ClientReturn ==
    /\ Return
    /\ UNCHANGED beside_client

\* the arguments query() is called with
ClientArgs ==
    { [query_string |-> <<"*">>, time_start |-> IsoFormat(1),
       time_end |-> IsoFormat(2), max_results |-> Some(2),
       compartment_id |-> None] }

Next ==
    \/ \E value \in Ocids : SetCompartment(value)
    \/ \E flag \in BOOLEAN, a \in ClientArgs : ClientQuery(flag, a)
    \/ \E page \in SeqUpTo(Compartments, MaxListed), has_next_page \in BOOLEAN :
          ListPage(page, has_next_page)
    \/ ListFails
    \/ AttemptOk
    \/ AttemptThrottled
    \/ \E status \in ErrorStatuses : AttemptError(status)
    \/ ClientReturn

Spec == Init /\ [][Next]_vars

\* ------------------------------------------------------------------------
\* QueryEngine._make_cache_key
\* ------------------------------------------------------------------------
\* f"{query}:{start.isoformat()}:{end.isoformat()}:{sub_flag}:{comp}"
_make_cache_key(query, start, end, flag, compartment_id) ==
    LET sub_flag == IF flag THEN <<"sub">> ELSE <<"nosub">>
        comp == IF compartment_id = None \/ compartment_id = Some(<<>>)
                THEN <<"default">> ELSE compartment_id[1]
    IN query \o <<":">> \o IsoFormat(start) \o <<":">> \o IsoFormat(end)
             \o <<":">> \o sub_flag \o <<":">> \o comp

\* query texts, one of them holding the separator
KeyQueries == { <<"a">>, <<"a", ":", "1", ":", "00">> }
\* the compartment_id argument: absent, empty, the word default, an OCID
KeyScopes == { None, Some(<<>>), Some(<<"default">>), Some(CompartmentA) }
\* the argument tuples of _make_cache_key
KeyInputs ==
    [query : KeyQueries, start : 1..MaxKeyInstant, end : 1..MaxKeyInstant,
     include_subcompartments : BOOLEAN, compartment_id : KeyScopes]

KeyInit ==
    /\ ClientInit(TenancyOcid)
    /\ key_args \in [1..2 -> KeyInputs]
    /\ keys = <<None, None>>
    /\ EngineStart
    /\ LimiterStart
    /\ CacheStart
    /\ NoItems
    /\ _enabled = TRUE

\* call i of _make_cache_key returns
MakeKey(i) ==
    /\ keys[i] = None
    /\ keys' = [keys EXCEPT ![i] =
                   Some(_make_cache_key(key_args[i].query, key_args[i].start,
                                        key_args[i].end,
                                        key_args[i].include_subcompartments,
                                        key_args[i].compartment_id))]
    /\ UNCHANGED <<client_vars, key_args, engine_vars, limiter_vars, cache_vars, parse_vars, context_vars>>

KeyNext == \E i \in 1..2 : MakeKey(i)

KeySpec == KeyInit /\ [][KeyNext]_vars

\* ------------------------------------------------------------------------
\* parse_time_range
\* ------------------------------------------------------------------------
\* Python falsehood of an optional string: None or ""
Falsy(opt) == opt = None \/ opt = Some(<<>>)

\* TIME_RANGES, in ticks (two of its rows)
TIME_RANGES ==
    [n \in { <<"last_15_min">>, <<"last_1_hour">> } |->
        IF n = <<"last_15_min">> THEN 3 ELSE 12]
default_range == <<"last_1_hour">>

\* _parse_datetime: None stands for ValueError
_parse_datetime(time_str) == FromIso(time_str)

\* parse_time_range at clock t_now: Some(<<start, end>>), or None for ValueError
parse_time_range(time_start, time_end, time_range, t_now) ==
    IF ~Falsy(time_start) /\ ~Falsy(time_end)
    THEN LET start == _parse_datetime(time_start[1])
             end == _parse_datetime(time_end[1])
         IN IF start = None \/ end = None THEN None
            ELSE Some(<<start[1], end[1]>>)
    ELSE IF ~Falsy(time_start)
    THEN LET start == _parse_datetime(time_start[1])
         IN IF start = None THEN None ELSE Some(<<start[1], t_now>>)
    ELSE IF ~Falsy(time_end)
    THEN LET end == _parse_datetime(time_end[1])
         IN IF end = None THEN None
            ELSE Some(<<end[1] - TIME_RANGES[default_range], end[1]>>)
    ELSE LET range_name == IF Falsy(time_range) THEN default_range
                           ELSE time_range[1]
         IN IF range_name \notin DOMAIN TIME_RANGES THEN None
            ELSE Some(<<t_now - TIME_RANGES[range_name], t_now>>)

\* ------------------------------------------------------------------------
\* CacheManager (category "query") and QueryLogger
\* ------------------------------------------------------------------------
\* CacheManager._is_expired at clock t
_is_expired(entry, t) == t - entry.created_at > entry.ttl_seconds

\* faulty variant of CacheGet: a hit removes the entry it returns
CacheGet_PopOnHit(enabled, cache, key, t) ==
    IF ~enabled \/ key \notin DOMAIN cache
    THEN [value |-> None, cache |-> cache]
    ELSE [value |-> IF _is_expired(cache[key], t) THEN None
                    ELSE Some(cache[key].value),
          cache |-> [k \in DOMAIN cache \ {key} |-> cache[k]]]

\* CacheManager.get: the value returned (None for a miss) and the cache after
CacheGet(enabled, cache, key, t) ==
    IF ~enabled \/ key \notin DOMAIN cache
    THEN [value |-> None, cache |-> cache]
    ELSE IF _is_expired(cache[key], t)
    THEN [value |-> None,
          cache |-> [k \in DOMAIN cache \ {key} |-> cache[k]]]
    ELSE [value |-> Some(cache[key].value), cache |-> cache]

\* CacheManager._cleanup
_cleanup(cache, t) ==
    [k \in {j \in DOMAIN cache : ~_is_expired(cache[j], t)} |-> cache[k]]

\* CacheManager.set at clock t.  The field computed_for is not part of the
\* program: it remembers the request the value was computed for.
CacheSet(enabled, cache, key, value, t, request) ==
    IF ~enabled THEN cache
    ELSE LET stored == [k \in DOMAIN cache \cup {key} |->
                          IF k = key
                          THEN [value |-> value, created_at |-> t,
                                ttl_seconds |-> _query_ttl,
                                computed_for |-> request]
                          ELSE cache[k]]
         IN IF Cardinality(DOMAIN stored) > cleanup_threshold
            THEN _cleanup(stored, t) ELSE stored

\* faulty variant of ErrorText: the text of the error is lost
ErrorText_Lost(error) == <<>>

\* str(e)
ErrorText(error) == <<error.type, ToString(error.status)>>

\* faulty variant of LogEntry: the total count is logged instead of the rows
LogEntry_TotalCount(query, start, end, execution_time, result, success, error, t) ==
    [timestamp |-> IsoFormat(t),
     query |-> query,
     time_range |-> [start |-> IsoFormat(start), end |-> IsoFormat(end)],
     execution_time_seconds |-> execution_time,
     result_count |-> IF success /\ result.total_count # None
                      THEN result.total_count[1] ELSE 0,
     success |-> success,
     error |-> IF error # <<>> THEN Some(error) ELSE None]

\* the entry QueryLogger.log_query builds at clock t; execute passes
\* result_count = len(result.get("rows", [])) on success and 0 on failure
LogEntry(query, start, end, execution_time, result, success, error, t) ==
    [timestamp |-> IsoFormat(t),
     query |-> query,
     time_range |-> [start |-> IsoFormat(start), end |-> IsoFormat(end)],
     execution_time_seconds |-> execution_time,
     result_count |-> IF success THEN Len(result.rows) ELSE 0,
     success |-> success,
     error |-> IF error # <<>> THEN Some(error) ELSE None]

\* QueryLogger.log_query: _recent_queries afterwards
log_query(recent, entry) ==
    LET r == <<entry>> \o recent
    IN IF Len(r) > _max_recent THEN SubSeq(r, 1, _max_recent) ELSE r

\* ------------------------------------------------------------------------
\* QueryEngine.execute and execute_batch
\* ------------------------------------------------------------------------
\* the query dictionaries execute_batch is given
AbsoluteQuery ==
    [query |-> <<"a">>, time_start |-> Some(IsoFormat(1)),
     time_end |-> Some(IsoFormat(2)), time_range |-> None, max_results |-> None,
     include_subcompartments |-> FALSE, compartment_id |-> None, use_cache |-> TRUE]
RelativeQuery ==
    [AbsoluteQuery EXCEPT !.time_start = None, !.time_end = None,
                          !.time_range = Some(<<"last_15_min">>),
                          !.include_subcompartments = TRUE]
EngineQueries ==
    { AbsoluteQuery,
      [AbsoluteQuery EXCEPT !.max_results = Some(2)],
      RelativeQuery,
      [RelativeQuery EXCEPT !.time_range = Some(<<"yesterday">>)] }

\* compartment_id or self.oci_client.compartment_id
EffectiveCompartment(compartment_id, default) ==
    IF Falsy(compartment_id) THEN default ELSE compartment_id[1]

NoWindow == [start |-> 0, end |-> 0]
NoReturn == [kind |-> "none", error |-> <<>>]

\* the coroutine execute(**q) before it first runs.  The fields events and
\* evicted are not part of the program: the effects the coroutine has had so
\* far, and whether its cache lookup removed an expired entry.
NewTask(q) ==
    [phase |-> "ready", request |-> q, window |-> NoWindow,
     effective_compartment |-> <<>>, cache_key |-> <<>>, start_time |-> 0,
     events |-> <<>>, evicted |-> FALSE, returned |-> NoReturn]

\* the metadata of what execute returns
Metadata(task) ==
    [query |-> task.request.query,
     compartment_id |-> task.effective_compartment,
     time_start |-> IsoFormat(task.window.start),
     time_end |-> IsoFormat(task.window.end),
     include_subcompartments |-> task.request.include_subcompartments]

\* execute_batch(queries): the coroutines are created and handed to gather
ExecuteBatch(queries) ==
    /\ tasks = <<>> \/ results # None
    /\ executed + Len(queries) <= MaxExecutes
    /\ executed' = executed + Len(queries)
    /\ tasks' = [i \in 1..Len(queries) |-> NewTask(queries[i])]
    /\ results' = None
    /\ UNCHANGED <<client_vars, key_vars, limiter_vars, cache_vars, parse_vars, context_vars,
                 now, _enabled, _query_cache,
                   _recent_queries, owner>>

\* the clock is read after elapsed more ticks have passed
Elapse(elapsed) ==
    /\ now + elapsed <= Epoch + MaxTicks
    /\ now' = now + elapsed

\* execute up to its first await: the window, the key and the cache lookup.
\* The event loop starts the coroutines of a gather in order; a coroutine
\* that starts while a query() call of another is suspended is taken to
\* start when that call is about to return (the call touches nothing that
\* this step reads).
ExecuteStart(t, elapsed) ==
    /\ t <= Len(tasks)
    /\ tasks[t].phase = "ready"
    /\ \A u \in 1..(t - 1) : tasks[u].phase # "ready"
    /\ owner = 0 \/ pc = "done"
    /\ Elapse(elapsed)
    /\ LET q == tasks[t].request
           parsed == parse_time_range(q.time_start, q.time_end, q.time_range, now')
       IN IF parsed = None
          THEN /\ tasks' = [tasks EXCEPT ![t] =
                              [@ EXCEPT !.phase = "done",
                                        !.returned = [kind |-> "raise",
                                                      error |-> <<"ValueError">>]]]
               /\ UNCHANGED _query_cache
          ELSE LET window == [start |-> parsed[1][1], end |-> parsed[1][2]]
                   effective == EffectiveCompartment(q.compartment_id, _compartment_id)
                   cache_key == _make_cache_key(q.query, window.start, window.end,
                                                q.include_subcompartments,
                                                Some(effective))
                   got == IF q.use_cache
                          THEN CacheGet(_enabled, _query_cache, cache_key, now')
                          ELSE [value |-> None, cache |-> _query_cache]
                   task == [tasks[t] EXCEPT !.window = window,
                                            !.effective_compartment = effective,
                                            !.cache_key = cache_key,
                                            !.start_time = now',
                                            !.evicted = (got.cache # _query_cache)]
               IN /\ _query_cache' = got.cache
                  /\ tasks' = [tasks EXCEPT ![t] =
                        IF got.value # None
                        THEN [task EXCEPT !.phase = "done",
                                          !.returned = [kind |-> "return",
                                                        source |-> "cache",
                                                        data |-> got.value[1],
                                                        metadata |-> Metadata(task)]]
                        ELSE [task EXCEPT !.phase = "miss"]]
    /\ UNCHANGED <<client_vars, key_vars, limiter_vars, cache_vars, parse_vars, context_vars,
                 _enabled, _recent_queries, owner,
                   results, executed>>

\* faulty variant of QueryArgs: the window is resolved again for the call
QueryArgs_ResolvedAgain(task) ==
    LET q == task.request
        parsed == parse_time_range(q.time_start, q.time_end, q.time_range, now)
    IN [query_string |-> q.query,
        time_start |-> IsoFormat(parsed[1][1]),
        time_end |-> IsoFormat(parsed[1][2]),
        max_results |-> q.max_results,
        compartment_id |-> q.compartment_id]

\* the arguments execute hands to oci_client.query
QueryArgs(task) ==
    [query_string |-> task.request.query,
     time_start |-> IsoFormat(task.window.start),
     time_end |-> IsoFormat(task.window.end),
     max_results |-> task.request.max_results,
     compartment_id |-> task.request.compartment_id]

\* execute calls oci_client.query; the model runs the query() calls of the
\* tasks one after the other
ExecuteCall(t) ==
    /\ t <= Len(tasks)
    /\ tasks[t].phase = "miss"
    /\ owner = 0
    /\ owner' = t
    /\ Query(tasks[t].request.include_subcompartments, QueryArgs(tasks[t]))
    /\ tasks' = [tasks EXCEPT ![t] = [@ EXCEPT !.phase = "calling",
                                               !.events = Append(@, "query")]]
    /\ UNCHANGED <<key_vars, limiter_vars, cache_vars, parse_vars, context_vars,
                 now, _enabled, _query_cache, _recent_queries,
                   results, executed>>

\* oci_client.query returned or raised: the rest of execute
ExecuteFinish(t, elapsed) ==
    /\ t <= Len(tasks)
    /\ tasks[t].phase = "calling"
    /\ owner = t
    /\ Return
    /\ owner' = 0
    /\ Elapse(elapsed)
    /\ LET task == tasks[t]
           q == task.request
           execution_time == now' - task.start_time
       IN IF outcome.kind = "return"
          THEN /\ _query_cache' =
                     IF q.use_cache
                     THEN CacheSet(_enabled, _query_cache, task.cache_key,
                                   outcome.result, now',
                                   [request |-> q, window |-> task.window,
                                    compartment_id |-> task.effective_compartment])
                     ELSE _query_cache
               /\ _recent_queries' =
                     log_query(_recent_queries,
                               LogEntry(q.query, task.window.start, task.window.end,
                                        execution_time, outcome.result, TRUE, <<>>, now'))
               /\ tasks' = [tasks EXCEPT ![t] =
                     [@ EXCEPT !.phase = "done",
                               !.events = @ \o (IF q.use_cache THEN <<"set">> ELSE <<>>)
                                            \o <<"log">>,
                               !.returned =
                                  [kind |-> "return", source |-> "live",
                                   data |-> outcome.result,
                                   metadata |-> Metadata(task),
                                   execution_time_seconds |-> execution_time]]]
          ELSE /\ _recent_queries' =
                     log_query(_recent_queries,
                               LogEntry(q.query, task.window.start, task.window.end,
                                        execution_time, NoResult, FALSE,
                                        ErrorText(outcome.error), now'))
               /\ tasks' = [tasks EXCEPT ![t] =
                     [@ EXCEPT !.phase = "done",
                               !.events = Append(@, "log"),
                               !.returned = [kind |-> "raise",
                                             error |-> ErrorText(outcome.error)]]]
               /\ UNCHANGED _query_cache
    /\ UNCHANGED <<key_vars, limiter_vars, cache_vars, parse_vars, context_vars,
                 _enabled, results, executed>>

\* faulty variant of Gathered: the first exception ends the wait
Gathered_UntilFirstException(ts) ==
    \/ \A t \in 1..Len(ts) : ts[t].phase = "done"
    \/ \E t \in 1..Len(ts) : ts[t].phase = "done" /\ ts[t].returned.kind = "raise"

\* asyncio.gather(*tasks, return_exceptions=True) is complete
Gathered(ts) == \A t \in 1..Len(ts) : ts[t].phase = "done"

\* the list execute_batch builds from what gather returned
BatchResults(ts) ==
    [i \in 1..Len(ts) |->
        IF ts[i].returned.kind = "return"
        THEN [success |-> TRUE,
              result |-> [source |-> ts[i].returned.source,
                          data |-> ts[i].returned.data,
                          metadata |-> ts[i].returned.metadata]]
        ELSE [success |-> FALSE, error |-> ts[i].returned.error]]

\* execute_batch returns
BatchReturn ==
    /\ tasks # <<>>
    /\ results = None
    /\ Gathered(tasks)
    /\ results' = Some(BatchResults(tasks))
    /\ UNCHANGED <<client_vars, key_vars, limiter_vars, cache_vars, parse_vars, context_vars,
                 now, _enabled, _query_cache,
                   _recent_queries, tasks, owner, executed>>

\* MCPHandlers._set_compartment: the client's compartment is changed and the
\* cache is cleared.  The tool call is taken between two execute_batch calls.
_set_compartment(value) ==
    /\ tasks = <<>> \/ results # None
    /\ _compartment_id' = value
    /\ _query_cache' = [k \in {} |-> None]
    /\ UNCHANGED <<rate_limiter, pc, args, scope, include_subcompartments, mode,
                   federation, target, throttled, acquires, sent, calls, outcome>>
    /\ UNCHANGED <<key_vars, limiter_vars, cache_vars, parse_vars, context_vars,
                 now, _enabled, _recent_queries, tasks, owner,
                   results, executed>>

\* the listings and the answers the backend gives while the engine runs
EnginePages == { <<CompartmentA, CompartmentB>> }
EngineData(cid) ==
    { [has_columns |-> TRUE,
       columns |-> << [display_name |-> Some("Count"), internal_name |-> cid[4],
                       value_type |-> "LONG"] >>,
       has_items |-> TRUE, items |-> items,
       has_total_count |-> TRUE, total_count |-> Some(2),
       has_is_partial_result |-> TRUE, is_partial_result |-> Some(FALSE)] :
        items \in { << [shape |-> "list", values |-> <<cid[4], "1">>] >> } }

\* one list_compartments request of the call in progress, answered
EngineListPage(page) == ListPage(page, FALSE)

\* the backend answers the attempt in progress with data
EngineAttemptOk ==
    /\ pc = "single"
    /\ UNCHANGED beside_client
    /\ \E data \in EngineData(target.compartment_id) : Answer(data)

EngineInit ==
    /\ ClientInit(TenancyOcid)
    /\ NoKeys
    /\ EngineStart
    /\ LimiterStart
    /\ CacheStart
    /\ NoItems
    /\ _enabled = TRUE

EngineNext ==
    \/ \E queries \in SeqUpTo(EngineQueries, MaxExecutes) \ {<<>>} :
          ExecuteBatch(queries)
    \/ \E t \in 1..MaxExecutes, elapsed \in 0..MaxTicks : ExecuteStart(t, elapsed)
    \/ \E t \in 1..MaxExecutes : ExecuteCall(t)
    \/ \E page \in EnginePages : EngineListPage(page)
    \/ ListFails
    \/ EngineAttemptOk
    \/ AttemptThrottled
    \/ \E status \in ErrorStatuses : AttemptError(status)
    \/ \E t \in 1..MaxExecutes, elapsed \in 0..MaxTicks : ExecuteFinish(t, elapsed)
    \/ BatchReturn
    \/ \E value \in {TenancyOcid, CompartmentB} : _set_compartment(value)

EngineSpec == EngineInit /\ [][EngineNext]_vars

\* ------------------------------------------------------------------------
\* Tool calls that change the context while the engine runs
\* ------------------------------------------------------------------------
\* the requests run_query makes of the engine: the default scope with its
\* descendants, scope "tenancy" (_resolve_scope names the tenancy and sets the
\* flag), and the override of one compartment
DefaultScopeQuery == [AbsoluteQuery EXCEPT !.include_subcompartments = TRUE]
TenancyScopeQuery ==
    [AbsoluteQuery EXCEPT !.include_subcompartments = TRUE,
                          !.compartment_id = Some(TenancyOcid)]
OverrideQuery == [AbsoluteQuery EXCEPT !.compartment_id = Some(CompartmentA)]
ContextQueries == {DefaultScopeQuery, TenancyScopeQuery, OverrideQuery}

\* the event loop can run another tool call when no query() call is in
\* progress, or when the one in progress is at RateLimiter.acquire or in the
\* backoff sleep, the places where it is suspended.  An execute that has
\* missed the cache goes on to its query() call without suspension.
ToolCallRuns ==
    /\ \A t \in 1..Len(tasks) : tasks[t].phase # "miss"
    /\ owner = 0 \/ pc = "single"

\* MCPHandlers._set_compartment as a tool call of its own
set_compartment(value) ==
    /\ ToolCallRuns
    /\ _compartment_id' = value
    /\ _query_cache' = [k \in {} |-> None]
    /\ _schema_cache' = [k \in {} |-> None]
    /\ UNCHANGED <<rate_limiter, pc, args, scope, include_subcompartments, mode,
                   federation, target, throttled, acquires, sent, calls, outcome>>
    /\ UNCHANGED <<key_vars, limiter_vars, returned, entered, parse_vars,
                   context_vars, now, _enabled, _recent_queries, tasks, owner,
                   results, executed>>

\* MCPHandlers._set_namespace
set_namespace(value) ==
    /\ ToolCallRuns
    /\ _namespace' = value
    /\ _query_cache' = [k \in {} |-> None]
    /\ _schema_cache' = [k \in {} |-> None]
    /\ UNCHANGED <<client_vars, key_vars, limiter_vars, returned, entered,
                   parse_vars, now, _enabled, _recent_queries, tasks, owner,
                   results, executed>>

\* the answer of the backend to a query against compartment cid in a
\* namespace: one row, which names the compartment and the namespace it is of
ContextData(cid, namespace) ==
    { [has_columns |-> TRUE,
       columns |-> << [display_name |-> Some("Count"), internal_name |-> cid[4],
                       value_type |-> "LONG"] >>,
       has_items |-> TRUE,
       items |-> << [shape |-> "list", values |-> <<cid[4], namespace>>] >>,
       has_total_count |-> TRUE, total_count |-> Some(2),
       has_is_partial_result |-> TRUE, is_partial_result |-> Some(FALSE)] }

\* the backend answers the attempt in progress: the request names the
\* namespace the client has at that moment
ContextAttemptOk ==
    /\ pc = "single"
    /\ UNCHANGED beside_client
    /\ \E data \in ContextData(target.compartment_id, _namespace) : Answer(data)

ContextInit == EngineInit

\* the failures of the backend other than the rate limit are followed in
\* EngineSpec
ContextNext ==
    \/ \E queries \in SeqUpTo(ContextQueries, MaxExecutes) \ {<<>>} :
          ExecuteBatch(queries)
    \/ \E t \in 1..MaxExecutes, elapsed \in 0..MaxTicks : ExecuteStart(t, elapsed)
    \/ \E t \in 1..MaxExecutes : ExecuteCall(t)
    \/ \E page \in EnginePages : EngineListPage(page)
    \/ ContextAttemptOk
    \/ AttemptThrottled
    \/ \E t \in 1..MaxExecutes, elapsed \in 0..MaxTicks : ExecuteFinish(t, elapsed)
    \/ BatchReturn
    \/ \E value \in {TenancyOcid, CompartmentB} : set_compartment(value)
    \/ \E value \in Namespaces : set_namespace(value)

ContextSpec == ContextInit /\ [][ContextNext]_vars

\* ------------------------------------------------------------------------
\* RateLimiter: acquire, handle_rate_limit, reset
\* ------------------------------------------------------------------------
\* The tasks run on one event loop: a task runs from one await to the next
\* without interleaving, so each action below is one such run.  The clock
\* is read as one instant within a run.

\* what the limiter does not touch
beside_limiter ==
    <<_compartment_id, pc, args, scope, include_subcompartments, mode,
      federation, target, throttled, acquires, sent, calls, outcome, key_vars,
      engine_vars, cache_vars, parse_vars, context_vars>>

\* an acquire() that returns without releasing the lock
Stamp_KeepsLock(i, lock) ==
    /\ _last_request_time' = time
    /\ _lock' = lock
    /\ callers' = [callers EXCEPT ![i] = Running]
    /\ acquired' = IF Len(acquired) < 2 THEN Append(acquired, time)
                   ELSE <<acquired[2], time>>

\* line 63 and the end of the with block: the request is stamped, the lock
\* is released and acquire() returns
Stamp(i, lock) ==
    /\ _last_request_time' = time
    /\ _lock' = [lock EXCEPT !.holder = 0]
    /\ callers' = [callers EXCEPT ![i] = Running]
    /\ acquired' = IF Len(acquired) < 2 THEN Append(acquired, time)
                   ELSE <<acquired[2], time>>

\* acquire sleeping for the time already elapsed
Pace_SleepsElapsed(i, lock) ==
    LET elapsed == time - _last_request_time IN
    IF elapsed < min_interval
    THEN /\ callers' = [callers EXCEPT ![i] =
                           Suspended("pacing", time + elapsed)]
         /\ _lock' = lock
         /\ UNCHANGED <<_last_request_time, acquired>>
    ELSE Stamp(i, lock)

\* lines 58-63: sleep for what is left of min_interval, or go on at once
Pace(i, lock) ==
    LET elapsed == time - _last_request_time IN
    IF elapsed < min_interval
    THEN /\ callers' = [callers EXCEPT ![i] =
                           Suspended("pacing",
                                     time + (min_interval - elapsed))]
         /\ _lock' = lock
         /\ UNCHANGED <<_last_request_time, acquired>>
    ELSE Stamp(i, lock)

\* lines 51-63 with the lock held, up to the first suspension
Critical(i, lock) ==
    IF _backoff_until # None /\ _backoff_until[1] - time > 0
    THEN /\ callers' = [callers EXCEPT ![i] =
                           Suspended("backoff", _backoff_until[1])]
         /\ _lock' = lock
         /\ UNCHANGED <<_backoff_until, _last_request_time, acquired>>
    ELSE /\ _backoff_until' = None
         /\ Pace(i, lock)

\* task i is not inside a call of the limiter
Outside(i) == callers[i].pc \in {"running", "raised"}

\* task i calls acquire(): a free lock without waiters is taken at once,
\* otherwise the task joins the lock's queue
AcquireCall(i) ==
    /\ Outside(i)
    /\ IF _lock.holder = 0 /\ _lock.waiters = <<>>
       THEN Critical(i, [_lock EXCEPT !.holder = i])
       ELSE /\ _lock' = [_lock EXCEPT !.waiters = Append(@, i)]
            /\ callers' = [callers EXCEPT ![i] = Suspended("queued", 0)]
            /\ UNCHANGED <<_backoff_until, _last_request_time, acquired>>
    /\ UNCHANGED <<time, _retry_count, delays, beside_limiter>>

\* the released lock goes to its first waiter, which enters the with block
LockGranted(i) ==
    /\ callers[i].pc = "queued"
    /\ _lock.holder = 0
    /\ _lock.waiters # <<>>
    /\ Head(_lock.waiters) = i
    /\ Critical(i, [holder |-> i, waiters |-> Tail(_lock.waiters)])
    /\ UNCHANGED <<time, _retry_count, delays, beside_limiter>>

\* the sleep of line 54 is over: line 55, then the pacing
BackoffWake(i) ==
    /\ callers[i].pc = "backoff"
    /\ time >= callers[i].wake
    /\ _backoff_until' = None
    /\ Pace(i, _lock)
    /\ UNCHANGED <<time, _retry_count, delays, beside_limiter>>

\* the sleep of line 61 is over
PacingWake(i) ==
    /\ callers[i].pc = "pacing"
    /\ time >= callers[i].wake
    /\ Stamp(i, _lock)
    /\ UNCHANGED <<time, _retry_count, _backoff_until, delays,
                   beside_limiter>>

Min(a, b) == IF a <= b THEN a ELSE b

\* a delay growing by initial_delay per retry
BaseDelay_Linear(k) == Min(initial_delay * k, max_delay)

\* the delay of handle_rate_limit before the jitter, at retry count k
BaseDelay(k) == Min(initial_delay * 2 ^ (k - 1), max_delay)

\* random.uniform(0, delay * 0.1): the two ends of its range, in whole ticks
Jitters(delay) == {0, delay \div 10}

\* every jitter random.uniform can return for some delay up to max_delay
AllJitters == 0..(max_delay \div 10)

\* task i calls handle_rate_limit(): it raises when the retries are used up,
\* otherwise it sets the backoff and sleeps for the delay
handle_rate_limit(i, jitter) ==
    /\ Outside(i)
    /\ LET count == _retry_count + 1 IN
       IF count > max_retries
       THEN /\ jitter = 0
            /\ _retry_count' = 0
            /\ callers' = [callers EXCEPT ![i] =
                              [pc |-> "raised", wake |-> 0,
                               error |-> Some("Exception")]]
            /\ delays' = <<>>
            /\ UNCHANGED _backoff_until
       ELSE /\ jitter \in Jitters(BaseDelay(count))
            /\ _retry_count' = count
            /\ _backoff_until' = Some(time + BaseDelay(count) + jitter)
            /\ callers' = [callers EXCEPT ![i] =
                              Suspended("delay",
                                        time + BaseDelay(count) + jitter)]
            /\ delays' = Append(delays, BaseDelay(count) + jitter)
    /\ UNCHANGED <<time, _last_request_time, _lock, acquired,
                   beside_limiter>>

\* the sleep of line 91 is over: handle_rate_limit() returns
DelayWake(i) ==
    /\ callers[i].pc = "delay"
    /\ time >= callers[i].wake
    /\ callers' = [callers EXCEPT ![i] = Running]
    /\ UNCHANGED <<time, rate_limiter, _last_request_time, _lock, acquired,
                   delays, beside_limiter>>

\* task i calls reset()
reset(i) ==
    /\ Outside(i)
    /\ _retry_count' = 0
    /\ delays' = <<>>
    /\ UNCHANGED <<time, _backoff_until, _last_request_time, _lock, callers,
                   acquired, beside_limiter>>

\* the clock advances
Tick ==
    /\ time < Epoch + MaxElapsed
    /\ time' = time + 1
    /\ UNCHANGED <<rate_limiter, _last_request_time, _lock, callers, acquired,
                   delays, beside_limiter>>

LimiterInit ==
    /\ ClientInit(TenancyOcid)
    /\ NoKeys
    /\ EngineStart
    /\ LimiterStart
    /\ CacheStart
    /\ NoItems
    /\ _enabled = TRUE

LimiterNext ==
    \/ \E i \in 1..MaxCallers : AcquireCall(i)
    \/ \E i \in 1..MaxCallers : LockGranted(i)
    \/ \E i \in 1..MaxCallers : BackoffWake(i)
    \/ \E i \in 1..MaxCallers : PacingWake(i)
    \/ \E i \in 1..MaxCallers, jitter \in AllJitters :
          handle_rate_limit(i, jitter)
    \/ \E i \in 1..MaxCallers : DelayWake(i)
    \/ \E i \in 1..MaxCallers : reset(i)
    \/ Tick

LimiterSpec == LimiterInit /\ [][LimiterNext]_vars

\* ------------------------------------------------------------------------
\* RateLimiter under the event loop's scheduling: time passes while tasks
\* sleep, and a task that can run does run
\* ------------------------------------------------------------------------
\* the tasks asleep in acquire() or handle_rate_limit()
Asleep ==
    {i \in 1..MaxCallers : /\ callers[i].pc \in {"backoff", "pacing", "delay"}
                           /\ callers[i].wake > time}

\* the clock runs on to the end of the shortest sleep in progress
TimePasses ==
    /\ \E i \in Asleep :
          /\ \A j \in Asleep : callers[i].wake <= callers[j].wake
          /\ time' = callers[i].wake
    /\ UNCHANGED <<rate_limiter, _last_request_time, _lock, callers, acquired,
                   delays, beside_limiter>>

\* the calls of the limiter are followed while the clock is below this
CallsFollowed == time < Epoch + MaxElapsed

\* a task outside the limiter calls one of its methods
CallerCalls ==
    /\ CallsFollowed
    /\ \E i \in 1..MaxCallers :
          \/ AcquireCall(i)
          \/ \E jitter \in AllJitters : handle_rate_limit(i, jitter)
          \/ reset(i)

\* the event loop resumes a task whose lock or sleep is due
TaskResumes ==
    \E i \in 1..MaxCallers :
        \/ LockGranted(i)
        \/ BackoffWake(i)
        \/ PacingWake(i)
        \/ DelayWake(i)

FairNext ==
    \/ CallerCalls
    \/ TaskResumes
    \/ TimePasses

\* the limiter after count rate-limit answers in a row were handled: the
\* request of the last one was stamped before its backoff, which has just
\* run out.  With count = 0 this is the limiter after __init__.
FairInit ==
    /\ _compartment_id = TenancyOcid
    /\ _namespace = SettingsNamespace
    /\ pc = "idle"
    /\ CallLocals
    /\ NoKeys
    /\ EngineStart
    /\ CacheStart
    /\ NoItems
    /\ _enabled = TRUE
    /\ time = Epoch
    /\ _lock = [holder |-> 0, waiters |-> <<>>]
    /\ callers = [i \in 1..MaxCallers |-> Running]
    /\ acquired = <<>>
    /\ \E count \in 0..max_retries :
          /\ _retry_count = count
          /\ delays = [k \in 1..count |-> BaseDelay(k)]
          /\ _backoff_until = IF count = 0 THEN None ELSE Some(Epoch)
          /\ _last_request_time = IF count = 0 THEN 0 ELSE Epoch - BaseDelay(count)

\* asyncio runs every ready task, and sleeps end
FairSpec ==
    /\ FairInit
    /\ [][FairNext]_vars
    /\ WF_vars(TaskResumes)
    /\ WF_vars(TimePasses)

\* ------------------------------------------------------------------------
\* RateLimiter: consecutive handle_rate_limit calls, the clock running from
\* the end of one sleep to the end of the next
\* ------------------------------------------------------------------------
\* the tasks asleep in handle_rate_limit
Sleepers ==
    {i \in 1..MaxCallers : callers[i].pc = "delay" /\ callers[i].wake > time}

\* the clock runs on to the end of the shortest sleep in progress
SleepElapses ==
    /\ \E i \in Sleepers :
          /\ \A j \in Sleepers : callers[i].wake <= callers[j].wake
          /\ callers[i].wake <= Epoch + MaxSlept
          /\ time' = callers[i].wake
    /\ UNCHANGED <<rate_limiter, _last_request_time, _lock, callers, acquired,
                   delays, beside_limiter>>

BackoffInit ==
    /\ ClientInit(TenancyOcid)
    /\ NoKeys
    /\ EngineStart
    /\ LimiterStart
    /\ CacheStart
    /\ NoItems
    /\ _enabled = TRUE

\* one task calls handle_rate_limit() and reset(), one call after the other
BackoffNext ==
    \/ \E jitter \in AllJitters : handle_rate_limit(1, jitter)
    \/ DelayWake(1)
    \/ reset(1)
    \/ SleepElapses

BackoffSpec == BackoffInit /\ [][BackoffNext]_vars

\* ------------------------------------------------------------------------
\* The retries of a single-scope query(), with other tasks on the limiter
\* ------------------------------------------------------------------------
\* the backend answers 429 to an attempt of the single-scope query
RetryThrottled == Throttled(MaxAttempts)

\* a single-scope query() call: no descent into sub-compartments
SingleScopeQuery(a) == ClientQuery(FALSE, a)

\* another task's query succeeds while this one waits in acquire() or sleeps
\* in handle_rate_limit(): _execute_single_query calls reset() (line 217)
OtherTaskSucceeds(i) == reset(i)

RetryInit ==
    /\ \E ocid \in Ocids : ClientInit(ocid)
    /\ NoKeys
    /\ EngineStart
    /\ LimiterStart
    /\ CacheStart
    /\ NoItems
    /\ _enabled = TRUE

RetryNext ==
    \/ \E a \in ClientArgs : SingleScopeQuery(a)
    \/ AttemptOk
    \/ RetryThrottled
    \/ \E status \in ErrorStatuses : AttemptError(status)
    \/ ClientReturn
    \/ \E i \in 1..MaxCallers : OtherTaskSucceeds(i)

RetrySpec == RetryInit /\ [][RetryNext]_vars

\* ------------------------------------------------------------------------
\* CacheManager: both categories, custom TTLs, delete and clear
\* ------------------------------------------------------------------------
\* CacheManager._get_cache
_get_cache(category) ==
    IF category = "schema" THEN _schema_cache ELSE _query_cache

\* CacheManager._get_default_ttl
_get_default_ttl(category) ==
    IF category = "schema" THEN _schema_ttl ELSE _query_ttl

\* the ttl_seconds arguments of set: None (not passed) or a number of ticks
Ttls == {None} \cup {Some(t) : t \in 0..MaxTtl}

\* `ttl_seconds or self._get_default_ttl(category)`: None and 0 are falsy
TtlOrDefault(ttl_seconds, category) ==
    IF ttl_seconds = None \/ ttl_seconds = Some(0)
    THEN _get_default_ttl(category)
    ELSE ttl_seconds[1]

\* faulty variant of StoreEntry: the cleanup pass never runs
StoreEntry_NoCleanup(cache, key, value, t, ttl) ==
    [k \in DOMAIN cache \cup {key} |->
        IF k = key
        THEN [value |-> value, created_at |-> t, ttl_seconds |-> ttl]
        ELSE cache[k]]

\* the assignment to cache[key] and the cleanup that follows it in set
StoreEntry(cache, key, value, t, ttl) ==
    LET stored == [k \in DOMAIN cache \cup {key} |->
                      IF k = key
                      THEN [value |-> value, created_at |-> t, ttl_seconds |-> ttl]
                      ELSE cache[k]]
    IN IF Cardinality(DOMAIN stored) > cleanup_threshold
       THEN _cleanup(stored, t) ELSE stored

\* the dictionary of category becomes cache, the other one stays
PutCache(category, cache) ==
    /\ _query_cache' = IF category = "schema" THEN _query_cache ELSE cache
    /\ _schema_cache' = IF category = "schema" THEN cache ELSE _schema_cache

\* what a call of the CacheManager leaves alone
beside_cache ==
    <<client_vars, key_vars, limiter_vars, parse_vars, context_vars, now, _enabled, _recent_queries, tasks,
      owner, results, executed>>

\* CacheManager.get
get(key, category) ==
    LET got == CacheGet(_enabled, _get_cache(category), key, now)
    IN /\ PutCache(category, got.cache)
       /\ returned' = [op |-> "get", key |-> key, category |-> category,
                       at |-> now, value |-> got.value]
       /\ UNCHANGED <<entered, beside_cache>>

\* faulty variant of CacheStore: the flag is not looked at
CacheStore_IgnoresFlag(enabled, cache, key, value, t, ttl) ==
    StoreEntry(cache, key, value, t, ttl)

\* what set makes of the dictionary of its category
CacheStore(enabled, cache, key, value, t, ttl) ==
    IF ~enabled THEN cache ELSE StoreEntry(cache, key, value, t, ttl)

\* CacheManager.set
set(key, value, category, ttl_seconds) ==
    /\ PutCache(category,
                CacheStore(_enabled, _get_cache(category), key, value, now,
                           TtlOrDefault(ttl_seconds, category)))
    /\ entered' = IF _enabled
                  THEN [entered EXCEPT ![category][key] =
                           Some([value |-> value, at |-> now, ttl |-> ttl_seconds])]
                  ELSE entered
    /\ returned' = [op |-> "set", key |-> key, category |-> category, at |-> now]
    /\ UNCHANGED beside_cache

\* CacheManager.delete
delete(key, category) ==
    LET cache == _get_cache(category)
    IN /\ PutCache(category, [k \in DOMAIN cache \ {key} |-> cache[k]])
       /\ returned' = [op |-> "delete", key |-> key, category |-> category,
                       at |-> now, found |-> key \in DOMAIN cache]
       /\ entered' = [entered EXCEPT ![category][key] = None]
       /\ UNCHANGED beside_cache

\* CacheManager.clear: category is None (all), "query" or "schema"
clear(category) ==
    /\ _query_cache' = IF category \in {None, Some("query")}
                       THEN [k \in {} |-> None] ELSE _query_cache
    /\ _schema_cache' = IF category \in {None, Some("schema")}
                        THEN [k \in {} |-> None] ELSE _schema_cache
    /\ returned' = [op |-> "clear", category |-> category, at |-> now]
    /\ entered' = [c \in Names |->
                      IF category \in {None, Some(c)}
                      THEN [k \in 1..MaxKeys |-> None] ELSE entered[c]]
    /\ UNCHANGED beside_cache

\* set of the keys first..last, one after the other at clock t, with the
\* default TTL of the query category.  No time passes between the calls, so
\* every cleanup among them removes the same entries, and one runs exactly
\* when the last call finds more than cleanup_threshold entries.
StoreAll(cache, first, last, t) ==
    LET stored == [k \in DOMAIN cache \cup first..last |->
                      IF k \in first..last
                      THEN [value |-> 1, created_at |-> t,
                            ttl_seconds |-> TtlOrDefault(None, "query")]
                      ELSE cache[k]]
    IN IF Cardinality(DOMAIN stored) > cleanup_threshold
       THEN _cleanup(stored, t) ELSE stored

\* the results of cleanup_threshold distinct queries are stored at one
\* instant, under keys of their own
Batch ==
    /\ _enabled
    /\ now <= Epoch + MaxBatchAt
    /\ _query_cache' = StoreAll(_query_cache, MaxKeys + 1,
                                MaxKeys + cleanup_threshold, now)
    /\ returned' = [op |-> "set", key |-> MaxKeys + cleanup_threshold,
                    category |-> "query", at |-> now]
    /\ UNCHANGED <<_schema_cache, entered, beside_cache>>

\* time passes between two calls of the CacheManager
CacheTick ==
    /\ now < Epoch + MaxAge
    /\ now' = now + 1
    /\ UNCHANGED <<client_vars, key_vars, limiter_vars, cache_vars, parse_vars, context_vars, _enabled,
                   _query_cache, _recent_queries, tasks, owner, results, executed>>

\* CacheManager.__init__ with caching enabled or disabled
CacheInit ==
    /\ ClientInit(TenancyOcid)
    /\ NoKeys
    /\ EngineStart
    /\ LimiterStart
    /\ CacheStart
    /\ NoItems
    /\ _enabled \in BOOLEAN

CacheNext ==
    \/ \E key \in 1..MaxKeys, category \in Categories : get(key, category)
    \/ \E key \in 1..MaxKeys, value \in 1..MaxValues, category \in Categories,
          ttl_seconds \in Ttls : set(key, value, category, ttl_seconds)
    \/ \E key \in 1..MaxKeys, category \in Categories : delete(key, category)
    \/ \E category \in {None} \cup {Some(c) : c \in Categories} : clear(category)
    \/ Batch
    \/ CacheTick

CacheSpec == CacheInit /\ [][CacheNext]_vars

\* the calls of the CacheManager with any of the names as category
NamesNext ==
    \/ \E key \in 1..MaxKeys, category \in Names : get(key, category)
    \/ \E key \in 1..MaxKeys, value \in 1..MaxValues, category \in Names :
          set(key, value, category, None)
    \/ \E key \in 1..MaxKeys, category \in Names : delete(key, category)
    \/ \E category \in {None} \cup {Some(c) : c \in Names} : clear(category)
    \/ Batch
    \/ CacheTick

NamesSpec == CacheInit /\ [][NamesNext]_vars

\* ------------------------------------------------------------------------
\* _parse_query_response on the items of one response
\* ------------------------------------------------------------------------
\* the values a backend row carries
CellValues == {"a", "b"}

\* the items the backend can send: every shape around every row of values;
\* a "scalar" item carries one value that is not a list
BackendItems ==
    { [shape |-> shape, values |-> values] :
        shape \in ItemShapes \ {"scalar"}, values \in SeqUpTo(CellValues, MaxWidth) }
    \cup { [shape |-> "scalar", values |-> v] : v \in CellValues }

\* the loop over data.items of _parse_query_response
Normalise ==
    /\ parsed_rows = None
    /\ parsed_rows' = Some(ParseItems(raw_items))
    /\ UNCHANGED <<raw_items, client_vars, key_vars, engine_vars, limiter_vars,
                   cache_vars, context_vars>>

\* a response with one to MaxItems items arrives
ParseInit ==
    /\ ClientInit(TenancyOcid)
    /\ NoKeys
    /\ EngineStart
    /\ LimiterStart
    /\ CacheStart
    /\ _enabled = TRUE
    /\ raw_items \in UNION {[1..n -> BackendItems] : n \in 1..MaxItems}
    /\ parsed_rows = None

ParseNext == Normalise

ParseSpec == ParseInit /\ [][ParseNext]_vars

\* ------------------------------------------------------------------------
\* Properties of query() and of the scatter/gather
\* ------------------------------------------------------------------------
\* the query() call in progress was made against the hierarchy root with
\* include_subcompartments set
RootWithDescendants == include_subcompartments /\ _compartment_id = TenancyOcid

\* the scatter/gather has returned its merged result
FederatedDone == pc = "done" /\ mode = "loop"

RECURSIVE RowsOfReturned(_)
\* the rows of the single queries of cs that returned, in order
RowsOfReturned(cs) ==
    IF cs = <<>> THEN <<>>
    ELSE (IF Head(cs).raised THEN <<>> ELSE Head(cs).result.rows)
         \o RowsOfReturned(Tail(cs))

\* the positions of cs whose single query raised
RaisedAt(cs) == {k \in 1..Len(cs) : cs[k].raised}

\* C1: query() federates only for scope = root with include_subcompartments
\* set; in every other case it makes no list_compartments request and starts
\* exactly one single query, all of whose requests go to the client's
\* compartment with the caller's flag, each but the last answered 429.
C1_FederatesOnlyOnRootWithFlag ==
    (pc # "idle" /\ ~RootWithDescendants) =>
        /\ list_requests = 0
        /\ mode = "direct"
        /\ Len(calls) <= 1
        /\ \A k \in 1..Len(sent) :
              /\ sent[k].compartment_id = _compartment_id
              /\ sent[k].compartment_id_in_subtree = include_subcompartments
              /\ k < Len(sent) => sent[k].status = 429
        /\ pc = "done" => (Len(calls) = 1 /\ Len(sent) >= 1)

\* a non-root query with the flag set has finished after one rate-limit retry
C1_Witness ==
    /\ pc = "done"
    /\ _compartment_id = CompartmentA
    /\ include_subcompartments
    /\ Len(sent) = 2
    /\ outcome.kind = "return"

\* C2: a federated query over N >= 1 scopes never raises, its rows are the
\* rows of the scopes whose single query returned, and its failed count is
\* the number of scopes whose single query raised.
C2_PartialFailureTolerance ==
    FederatedDone =>
        /\ outcome.kind = "return"
        /\ outcome.result.rows = RowsOfReturned(calls)
        /\ outcome.result.compartments_failed = Cardinality(RaisedAt(calls))

\* C3: is_partial of a federated result is true iff some scope returned a
\* partial result or some scope failed.
C3_PartialIffTruncatedOrFailed ==
    FederatedDone =>
        (outcome.result.is_partial <=>
            \/ \E k \in 1..Len(calls) :
                  ~calls[k].raised /\ Truthy(calls[k].result.is_partial)
            \/ outcome.result.compartments_failed > 0)

\* C4: in a federated query every enumerated scope is attempted exactly once,
\* in order, and counted exactly once: queried + failed = scopes enumerated.
C4_EveryScopeCounted ==
    /\ mode = "loop" =>
          /\ successful_queries + failed_queries = Len(calls)
          /\ Len(calls) <= Len(compartments)
          /\ \A k \in 1..Len(calls) : calls[k].compartment_id = compartments[k]
    /\ FederatedDone =>
          /\ Len(calls) = Len(compartments)
          /\ outcome.result.compartments_queried + outcome.result.compartments_failed
                = Len(compartments)
          /\ (outcome.result.compartments_queried < Len(compartments)
                => outcome.result.compartments_failed > 0)

\* a federated query has finished with one scope answered and one failed
C4_Witness ==
    /\ FederatedDone
    /\ outcome.result.compartments_queried = 1
    /\ outcome.result.compartments_failed = 1

\* the scopes a federated result counts as queried: the single query returned
\* and its result was merged without an error
Successful(c) == ~c.raised /\ c.result.total_count # None

RECURSIVE FirstColumns(_)
\* the column list of the first single query of cs that returned a non-empty one
FirstColumns(cs) ==
    IF cs = <<>> THEN <<>>
    ELSE IF ~Head(cs).raised /\ Head(cs).result.columns # <<>>
         THEN Head(cs).result.columns
         ELSE FirstColumns(Tail(cs))

RECURSIVE RowsOfSuccessful(_)
RowsOfSuccessful(cs) ==
    IF cs = <<>> THEN <<>>
    ELSE (IF Successful(Head(cs)) THEN Head(cs).result.rows ELSE <<>>)
         \o RowsOfSuccessful(Tail(cs))

RECURSIVE TotalOfSuccessful(_)
TotalOfSuccessful(cs) ==
    IF cs = <<>> THEN 0
    ELSE (IF Successful(Head(cs)) THEN Head(cs).result.total_count[1] ELSE 0)
         + TotalOfSuccessful(Tail(cs))

\* C5: the merged result is a function of the per-scope results in
\* enumeration order: columns of the first scope that returned any, rows the
\* concatenation of the successful scopes' rows, total_count the sum of the
\* successful scopes' total_counts.
C5_MergeOfSuccessfulScopes ==
    FederatedDone =>
        /\ outcome.result.columns = FirstColumns(calls)
        /\ outcome.result.rows = RowsOfSuccessful(calls)
        /\ outcome.result.total_count = TotalOfSuccessful(calls)

\* C6: per-scope queries are issued only from a fully drained enumeration.
C6_QueriesOnlyAfterDrained ==
    mode = "loop" => listing = "drained"

\* C7: the result of the single root query made after the listing failed is
\* marked as partial.
C7_DegradedResultIsMarked ==
    (pc = "done" /\ mode = "fallback" /\ listing = "failed"
        /\ outcome.kind = "return") =>
        Truthy(outcome.result.is_partial)

\* C8: when the enumeration yields no scope, the federator starts exactly one
\* single query, against the root with include_subcompartments = TRUE, and
\* hands its outcome (result or error) to the caller unchanged.
C8_EmptyEnumerationFallsBack ==
    /\ (pc \in {"single", "done"} /\ RootWithDescendants /\ compartments = <<>>) =>
          /\ mode = "fallback"
          /\ target = [compartment_id |-> TenancyOcid, include_subcompartments |-> TRUE]
          /\ \A k \in 1..Len(sent) :
                /\ sent[k].compartment_id = TenancyOcid
                /\ sent[k].compartment_id_in_subtree
                /\ k < Len(sent) => sent[k].status = 429
    /\ (pc = "done" /\ mode = "fallback") =>
          /\ Len(calls) = 1
          /\ outcome.kind = (IF calls[1].raised THEN "raise" ELSE "return")
          /\ outcome.error = calls[1].error
          /\ outcome.result = calls[1].result

\* the listing was drained and empty, and the single root query returned
C8_Witness ==
    /\ pc = "done"
    /\ mode = "fallback"
    /\ listing = "drained"
    /\ outcome.kind = "return"
    /\ outcome.result.rows # <<>>

\* C9: within one federated query each distinct scope is queried at most once.
C9_EachScopeQueriedOnce ==
    mode = "loop" =>
        \A j, k \in 1..Len(calls) :
            j # k => calls[j].compartment_id # calls[k].compartment_id

\* C10: a single query against the root is among the sub-queries of every
\* federated query.
C10_RootAmongSubQueries ==
    FederatedDone =>
        \E k \in 1..Len(calls) : calls[k].compartment_id = TenancyOcid

\* C11: while the scatter/gather loops over a non-empty listing, every request
\* it has sent carries compartment_id_in_subtree = FALSE and the query text,
\* the time window and the result cap of the query() call.
C11_SubQueriesCarryTheRequest ==
    mode = "loop" =>
        /\ \A k \in 1..Len(sent) :
              /\ ~sent[k].compartment_id_in_subtree
              /\ sent[k].query_string = args.query_string
              /\ sent[k].time_start = FromIso(args.time_start)
              /\ sent[k].time_end = FromIso(args.time_end)
              /\ sent[k].time_start # None /\ sent[k].time_end # None
              /\ sent[k].max_total_count = Cap(args.max_results)
        /\ \A k \in 1..Len(calls) : ~calls[k].include_subcompartments

\* the loop has sent the requests of two sub-queries of a call with its own cap
C11_Witness ==
    /\ mode = "loop"
    /\ pc = "done"
    /\ Len(calls) = 2
    /\ Len(sent) >= 2
    /\ args.max_results = Some(2)
    /\ sent[Len(sent)].max_total_count = 2
    /\ sent[Len(sent)].compartment_id = compartments[2]

\* ------------------------------------------------------------------------
\* Properties of the cache key
\* ------------------------------------------------------------------------
\* C17: _make_cache_key is injective and deterministic: once both calls have
\* returned, their keys are equal exactly if their argument tuples (query
\* text, start, end, include-descendants flag, scope) are equal.
C17_KeyInjective ==
    (Len(keys) = 2 /\ keys[1] # None /\ keys[2] # None) =>
        (keys[1] = keys[2] <=> key_args[1] = key_args[2])

\* ------------------------------------------------------------------------
\* Properties of QueryEngine.execute and execute_batch
\* ------------------------------------------------------------------------
\* task t takes the outcome of its oci_client.query call in this step
Finishes(t) ==
    /\ t <= Len(tasks)
    /\ tasks[t].phase = "calling"
    /\ tasks'[t].phase = "done"

\* task t looks the cache up in this step
LooksUp(t) ==
    /\ t <= Len(tasks)
    /\ tasks[t].phase = "ready"
    /\ tasks'[t].phase # "ready"
    /\ tasks'[t].cache_key # <<>>

FailsDirect(t) ==
    /\ Finishes(t)
    /\ outcome.kind = "raise"
    /\ mode = "direct"

\* what every failed non-federated execute does when the error arrives: one
\* failure log entry with the error text, the same error raised, no store
FailureLoggedAndRaised(t) ==
    /\ tasks'[t].events = <<"query", "log">>
    /\ Len(_recent_queries') = Len(_recent_queries) + 1
    /\ SubSeq(_recent_queries', 2, Len(_recent_queries')) = _recent_queries
    /\ ~_recent_queries'[1].success
    /\ _recent_queries'[1].result_count = 0
    /\ _recent_queries'[1].error = Some(<<outcome.error.type, ToString(outcome.error.status)>>)
    /\ tasks'[t].returned.kind = "raise"
    /\ tasks'[t].returned.error = <<outcome.error.type, ToString(outcome.error.status)>>
    /\ _query_cache' = _query_cache

\* C13 (as stated): a non-federated execute whose backend execution fails
\* writes one failure log entry with the error text, raises the same error
\* and leaves the cache exactly as it was when the call began.
C13_FailedCallLeavesCacheUnchanged ==
    [][\A t \in 1..MaxExecutes :
          FailsDirect(t) => (FailureLoggedAndRaised(t) /\ ~tasks[t].evicted)
    ]_vars

\* C13 (amended): a non-federated execute whose backend execution fails
\* writes one failure log entry with the error text, raises the same error
\* and stores nothing; the only change its call makes to the cache is that
\* the lookup may remove the expired entry under the request's own key.
C13_FailedCallStoresNothing ==
    [][\A t \in 1..MaxExecutes :
          /\ FailsDirect(t) => FailureLoggedAndRaised(t)
          /\ LooksUp(t) =>
                /\ DOMAIN _query_cache' \subseteq DOMAIN _query_cache
                /\ \A k \in DOMAIN _query_cache' : _query_cache'[k] = _query_cache[k]
                /\ \A k \in DOMAIN _query_cache \ DOMAIN _query_cache' :
                      /\ k = tasks'[t].cache_key
                      /\ _is_expired(_query_cache[k], now')
    ]_vars

\* a non-federated execute has failed after its lookup removed an expired entry
C13_Witness ==
    \E t \in 1..Len(tasks) :
        /\ tasks[t].phase = "done"
        /\ tasks[t].events = <<"query", "log">>
        /\ tasks[t].returned.kind = "raise"
        /\ ~tasks[t].request.include_subcompartments
        /\ tasks[t].evicted
        /\ tasks[t].cache_key \notin DOMAIN _query_cache
        /\ ~_recent_queries[1].success

\* task t finds its key in the cache in this step
Hits(t) ==
    /\ LooksUp(t)
    /\ tasks'[t].phase = "done"
    /\ tasks'[t].returned.kind = "return"

\* C14: on a cache hit execute returns source "cache" with the stored value,
\* calls no backend, writes no log entry and leaves the cache and the rate
\* limiter as they were.
C14_HitTouchesNothing ==
    [][\A t \in 1..MaxExecutes :
          Hits(t) =>
              /\ tasks'[t].returned.source = "cache"
              /\ tasks'[t].cache_key \in DOMAIN _query_cache
              /\ tasks'[t].returned.data = _query_cache[tasks'[t].cache_key].value
              /\ tasks'[t].events = <<>>
              /\ UNCHANGED <<_query_cache, _recent_queries, rate_limiter, pc,
                             sent, calls, owner>>
    ]_vars

\* an execute has been answered from the cache
C14_Witness ==
    \E t \in 1..Len(tasks) :
        /\ tasks[t].phase = "done"
        /\ tasks[t].returned.kind = "return"
        /\ tasks[t].returned.source = "cache"
        /\ tasks[t].events = <<>>
        /\ tasks[t].cache_key \in DOMAIN _query_cache

\* C15: an execute that repeats the request of an earlier successful execute
\* (same query text, scope, flag and time-window specification) with caching
\* on, within the TTL of the stored result and with that result still in the
\* cache, is answered from the cache.
C15_RepeatIsServedFromCache ==
    [][\A t \in 1..MaxExecutes :
          ( /\ LooksUp(t)
            /\ tasks[t].request.use_cache
            /\ \E k \in DOMAIN _query_cache :
                  /\ _query_cache[k].computed_for.request = tasks[t].request
                  /\ _query_cache[k].computed_for.compartment_id =
                        tasks'[t].effective_compartment
                  /\ now' - _query_cache[k].created_at <= _query_cache[k].ttl_seconds )
          => ( /\ tasks'[t].phase = "done"
               /\ tasks'[t].returned.kind = "return"
               /\ tasks'[t].returned.source = "cache" )
    ]_vars

\* C16: a cache hit for a request returns a result that was computed for a
\* request with the same query text, resolved window, effective scope, flag
\* and max_results.
C16_HitIsForTheSameQuery ==
    [][\A t \in 1..MaxExecutes :
          Hits(t) =>
              LET entry == _query_cache[tasks'[t].cache_key].computed_for
                  q == tasks[t].request
              IN /\ entry.request.query = q.query
                 /\ entry.window = tasks'[t].window
                 /\ entry.compartment_id = tasks'[t].effective_compartment
                 /\ entry.request.include_subcompartments = q.include_subcompartments
                 /\ entry.request.max_results = q.max_results
    ]_vars

\* C18: when execute_batch has returned, every query of the batch has
\* completed, and the list returned has one entry per query, in the order of
\* the queries: success with the result of the query, or failure with the
\* text of its error.
C18_BatchReportsEveryQuery ==
    results # None =>
        /\ Len(results[1]) = Len(tasks)
        /\ \A i \in 1..Len(tasks) :
              /\ tasks[i].phase = "done"
              /\ tasks[i].returned.kind \in {"return", "raise"}
              /\ IF tasks[i].returned.kind = "return"
                 THEN /\ results[1][i].success
                      /\ results[1][i].result.data = tasks[i].returned.data
                      /\ results[1][i].result.source = tasks[i].returned.source
                      /\ results[1][i].result.metadata.query = tasks[i].request.query
                 ELSE /\ ~results[1][i].success
                      /\ results[1][i].error = tasks[i].returned.error

\* a batch has returned in which the first query had an invalid time window
\* and the second one succeeded, and one in which a backend error is reported
C18_Witness ==
    /\ results # None
    /\ Len(results[1]) = 2
    /\ ~results[1][1].success
    /\ results[1][1].error \in {<<"ValueError">>, <<"ServiceError", "404">>}
    /\ results[1][2].success
    /\ results[1][2].result.source = "live"

\* C19: the window of an execute is the one parse_time_range gave at the one
\* clock reading at its start; the cache key, every backend request of the
\* call (sub-queries and retries included), the log entry and the returned
\* metadata carry that window, whatever the clock shows meanwhile.
C19_WindowResolvedOnce ==
    \A t \in 1..Len(tasks) :
        tasks[t].cache_key # <<>> =>
            LET w == tasks[t].window
                q == tasks[t].request
            IN /\ Some(<<w.start, w.end>>) =
                     parse_time_range(q.time_start, q.time_end, q.time_range,
                                      tasks[t].start_time)
               /\ tasks[t].cache_key =
                     _make_cache_key(q.query, w.start, w.end,
                                     q.include_subcompartments,
                                     Some(tasks[t].effective_compartment))
               /\ owner = t =>
                     \A k \in 1..Len(sent) :
                         /\ sent[k].time_start = Some(w.start)
                         /\ sent[k].time_end = Some(w.end)
               /\ tasks[t].returned.kind = "return" =>
                     /\ tasks[t].returned.metadata.time_start = IsoFormat(w.start)
                     /\ tasks[t].returned.metadata.time_end = IsoFormat(w.end)
               /\ (\E k \in 1..Len(tasks[t].events) : tasks[t].events[k] = "log") =>
                     \E k \in 1..Len(_recent_queries) :
                         /\ _recent_queries[k].query = q.query
                         /\ _recent_queries[k].time_range =
                               [start |-> IsoFormat(w.start), end |-> IsoFormat(w.end)]

\* a federated execute over a named window has sent the requests of two
\* sub-queries, one of them a retry after a 429, while the clock moved on
C19_Witness ==
    /\ owner # 0
    /\ pc = "done"
    /\ mode = "loop"
    /\ Len(calls) = 2
    /\ \E k \in 1..Len(sent) : sent[k].status = 429
    /\ tasks[owner].request.time_range # None
    /\ now > tasks[owner].start_time
    /\ sent[Len(sent)].time_end = Some(tasks[owner].start_time)

\* ------------------------------------------------------------------------
\* Properties of the RateLimiter
\* ------------------------------------------------------------------------
\* no backoff has been asked for and none is pending
NoBackoff == _backoff_until = None /\ _retry_count = 0

\* C20: on one RateLimiter the return times of any two successive acquire()
\* calls are at least min_interval apart, whatever the interleaving of the
\* tasks calling it; this holds with no backoff pending and with one.
C20_SuccessiveAcquiresPaced ==
    Len(acquired) = 2 => acquired[2] - acquired[1] >= min_interval

\* with no backoff pending, two acquire() calls have returned exactly
\* min_interval apart, a further call is sleeping out its interval and the
\* other task waits for the lock
C20_Witness ==
    /\ NoBackoff
    /\ Len(acquired) = 2
    /\ acquired[2] - acquired[1] = min_interval
    /\ \E i \in 1..MaxCallers : callers[i].pc = "pacing"
    /\ \E i \in 1..MaxCallers : callers[i].pc = "queued"

\* an acquire() call returns in this step
AcquireReturns == acquired' # acquired

\* C21: no acquire() returns earlier than a backoff-until timestamp that
\* handle_rate_limit() has set and that has not yet passed, whatever the
\* interleaving of acquire(), handle_rate_limit() and reset().
C21_AcquireHonorsBackoff ==
    [][AcquireReturns => (_backoff_until = None \/ _backoff_until[1] <= time)]_vars

\* a task is suspended inside the with block of acquire() and this step is
\* not that task's
OtherTaskSteps ==
    /\ _lock.holder # 0
    /\ callers'[_lock.holder] = callers[_lock.holder]

\* C22: while one task is inside the critical section of acquire(), also
\* while it is suspended there, no other task's acquire(),
\* handle_rate_limit() or reset() changes the retry count or the
\* backoff-until timestamp.
C22_LimiterStateUnderLock ==
    [][OtherTaskSteps => UNCHANGED <<_retry_count, _backoff_until>>]_vars

\* task i calls handle_rate_limit() in this step and starts its backoff sleep
BacksOff(i) == Outside(i) /\ callers'[i].pc = "delay"

\* task i calls handle_rate_limit() in this step and the call raises
Fails(i) == callers[i].pc # "raised" /\ callers'[i].pc = "raised"

\* the backoff sleep of task i ends in this step
SleepEnds(i) == callers[i].pc = "delay" /\ callers'[i].pc # "delay"

\* what C23 asks of a step, with error as the type of the exception raised
RetryCeiling(error) ==
    \A i \in 1..MaxCallers :
        /\ BacksOff(i) \/ Fails(i) =>
               (Len(delays) < max_retries <=> BacksOff(i))
        /\ SleepEnds(i) => callers'[i] = Running
        /\ Fails(i) => /\ callers'[i].error = Some(error)
                       /\ _retry_count' = 0
                       /\ UNCHANGED _backoff_until

\* C23: from retry count 0 and without a reset(), the first max_retries
\* handle_rate_limit() calls back off and return normally and the next one
\* fails with RateLimitExceeded; the failing call sets the counter to 0 and
\* neither sets nor sleeps a backoff window; the counter is within
\* 0..max_retries between operations.
C23_CeilingRaisesRateLimitExceeded ==
    /\ [](_retry_count \in 0..max_retries)
    /\ [][RetryCeiling("RateLimitExceeded")]_vars

\* min(initial_delay x 2^(k-1), max_delay)
DoublingBase(k) ==
    LET doubled == initial_delay * 2 ^ (k - 1) IN
    IF doubled <= max_delay THEN doubled ELSE max_delay

AllThrottled == \A k \in 1..Len(sent) : sent[k].status = 429

\* C25: a single-scope query whose every backend attempt is answered with
\* 429 makes at most max_retries + 1 attempts and then fails with the
\* rate-limit error, also when other tasks on the same RateLimiter complete
\* successful calls (which call reset()) in between.
C25_ThrottledQueryGivesUp ==
    (mode = "direct" /\ AllThrottled) =>
        /\ Len(sent) <= max_retries + 1
        /\ Len(sent) = max_retries + 1 =>
               pc = "done" /\ outcome.kind = "raise"

\* the last backend attempt of the query() call was answered with 429
LastThrottled == sent # <<>> /\ sent[Len(sent)].status = 429

BackoffHandled == _retry_count' = _retry_count + 1 /\ _backoff_until' # None

\* handle_rate_limit() is called once in this step and raises
BackoffRaised ==
    /\ _retry_count = max_retries
    /\ _retry_count' = 0
    /\ pc' = "done"
    /\ outcome'.kind = "raise"
    /\ outcome'.error.type = "Exception"

ErrorAnswered ==
    /\ Len(sent') = Len(sent) + 1
    /\ sent'[Len(sent')].status \notin {200, 429}

\* C27: a backend error other than a rate-limit response ends the
\* single-scope query at once with that error, unchanged: no retry, no
\* handle_rate_limit() call, and the retry count and the backoff-until of
\* the RateLimiter are as the attempt's acquire() left them.
C27_OtherErrorPropagates ==
    [][ErrorAnswered =>
          /\ Len(calls') = Len(calls) + 1
          /\ calls'[Len(calls')].raised
          /\ calls'[Len(calls')].error =
                 [type |-> "ServiceError", status |-> sent'[Len(sent')].status]
          /\ throttled' = throttled
          /\ _retry_count' = _retry_count
          /\ _backoff_until' = None
          /\ mode = "direct" =>
                 /\ pc' = "done"
                 /\ outcome'.kind = "raise"
                 /\ outcome'.error = calls'[Len(calls')].error]_vars

\* a single-scope query was answered 429 and then 404: it has raised the
\* 404 after two attempts and the retry count still is 1
C27_Witness ==
    /\ mode = "direct"
    /\ pc = "done"
    /\ Len(sent) = 2
    /\ sent[1].status = 429
    /\ outcome.kind = "raise"
    /\ outcome.error = [type |-> "ServiceError", status |-> 404]
    /\ _retry_count = 1

\* a request is handed to the backend in this step
RequestSent == Len(sent') = Len(sent) + 1

\* C28: every request sent to the backend, first attempt or retry, direct
\* or federated sub-query, follows an acquire() that the same call completed
\* for that request, and a successful response sets the retry counter to 0
\* before the result is returned.
C28_AcquireBeforeEveryRequest ==
    /\ [](Len(sent) = acquires)
    /\ [][RequestSent =>
             /\ acquires' = acquires + 1
             /\ sent'[Len(sent')].status = 200 =>
                    /\ _retry_count' = 0
                    /\ Len(calls') = Len(calls) + 1
                    /\ ~calls'[Len(calls')].raised]_vars

\* a federated query has sent a sub-query that was answered 429 and then,
\* after a second acquire(), with data: the retry counter is 0 again
C28_Witness ==
    /\ mode = "loop"
    /\ Len(sent) = 2
    /\ acquires = 2
    /\ sent[1].status = 429
    /\ sent[2].status = 200
    /\ sent[1].compartment_id = sent[2].compartment_id
    /\ _retry_count = 0
    /\ Len(calls) = 1

\* ------------------------------------------------------------------------
\* Properties of the CacheManager
\* ------------------------------------------------------------------------
\* this step is a get(key, category) call
GetStep(key, category) ==
    /\ now' = now
    /\ returned'.op = "get"
    /\ returned'.key = key
    /\ returned'.category = category

\* the TTL a set() call asked for: its ttl_seconds argument, or the default
\* of the category when the argument was not passed
AskedTtl(call, category) ==
    IF call.ttl = None THEN _get_default_ttl(category) ELSE call.ttl[1]

\* category holds an expired entry under key
ExpiredPresent(key, category) ==
    /\ key \in DOMAIN _get_cache(category)
    /\ _is_expired(_get_cache(category)[key], now)

\* this step is a set() call after which the cleanup pass ran on category
CleanupRan(category) ==
    /\ returned'.op = "set"
    /\ returned'.category = category
    /\ Cardinality(DOMAIN _get_cache(category) \cup DOMAIN _get_cache(category)')
          > cleanup_threshold

\* C29: with caching enabled, get(key, category) returns the value of the
\* last set(key, value, category, ttl=T) not followed by a delete or clear of
\* the key at every time less than T after the set, and misses at every
\* time more than T after it; a get that finds an expired entry removes it,
\* and an expired entry leaves its category only in such a get, in a
\* cleanup pass, in a delete or in a clear.
C29_TtlRetrievalAndEviction ==
    [][_enabled =>
         \A category \in Categories, key \in 1..MaxKeys :
             /\ (GetStep(key, category) /\ entered[category][key] # None) =>
                    LET call == entered[category][key][1]
                        T == AskedTtl(call, category)
                    IN /\ now - call.at < T => returned'.value = Some(call.value)
                       /\ now - call.at > T => returned'.value = None
             /\ (GetStep(key, category) /\ ExpiredPresent(key, category)) =>
                    key \notin DOMAIN _get_cache(category)'
             /\ (ExpiredPresent(key, category)
                   /\ key \notin DOMAIN _get_cache(category)') =>
                    \/ GetStep(key, category)
                    \/ CleanupRan(category)
                    \/ returned'.op \in {"delete", "clear"}]_vars

\* with the flag off, get(key, category) on these dictionaries is a miss that
\* leaves them alone, and set leaves them alone, whatever they hold
OffIsInert(query_cache, schema_cache, t) ==
    \A category \in Categories, key \in 1..MaxKeys :
        LET cache == IF category = "schema" THEN schema_cache ELSE query_cache
        IN /\ CacheGet(FALSE, cache, key, t) = [value |-> None, cache |-> cache]
           /\ \A value \in 1..MaxValues, ttl_seconds \in Ttls :
                  CacheStore(FALSE, cache, key, value, t,
                             TtlOrDefault(ttl_seconds, category)) = cache

\* C30: when the enabled flag is off, every get is a miss and every set
\* leaves both category dictionaries as they are, for every key and
\* category: in the calls made while the flag is off, and for the contents
\* the dictionaries come to hold while it is on.
C30_DisabledCacheIsInert ==
    /\ [](OffIsInert(_query_cache, _schema_cache, now))
    /\ [][(~_enabled /\ now' = now /\ returned'.op \in {"get", "set"}) =>
             /\ _query_cache' = _query_cache
             /\ _schema_cache' = _schema_cache
             /\ returned'.op = "get" => returned'.value = None]_vars

\* a get is answered with the flag off, after time has passed
C30_Witness ==
    /\ ~_enabled
    /\ returned.op = "get"
    /\ returned.value = None
    /\ returned.at > Epoch

\* this step is a get, set or delete with this category, or clear(category)
CallOn(category) ==
    /\ now' = now
    /\ \/ returned'.op \in {"get", "set", "delete"} /\ returned'.category = category
       \/ returned'.op = "clear" /\ returned'.category = Some(category)

\* C31: for any two distinct category names, a get (with its eviction), a
\* set (with its cleanup), a delete or a clear(category) on one leaves the
\* entries of the other unchanged; get(k) in one category returns a value
\* only if one was stored under k in that category; and clear(category)
\* leaves no entry in the category.
C31_CategoriesIndependent ==
    [][\A a \in Names :
          /\ \A b \in Names \ {a} :
                 CallOn(a) => _get_cache(b)' = _get_cache(b)
          /\ \A key \in 1..MaxKeys :
                 (GetStep(key, a) /\ returned'.value # None) =>
                     /\ entered[a][key] # None
                     /\ returned'.value = Some(entered[a][key][1].value)
          /\ (now' = now /\ returned'.op = "clear" /\ returned'.category = Some(a)) =>
                 DOMAIN _get_cache(a)' = {}]_vars

\* this step is a set() call made with caching enabled
SetStep == _enabled /\ now' = now /\ returned'.op = "set"

\* C32: after a set() with caching enabled the key just set is present with
\* the new value, and the category holds at most cleanup_threshold entries or
\* no expired entry; what the call removes from the category was expired,
\* what it keeps under other keys is unchanged, and the other category is
\* unchanged.
C32_SetStoresAndCleansUp ==
    [][SetStep =>
         LET category == returned'.category
             key == returned'.key
             before == _get_cache(category)
             after == IF category = "schema" THEN _schema_cache' ELSE _query_cache'
             other == IF category = "schema" THEN "query" ELSE "schema"
         IN /\ key \in DOMAIN after
            /\ after[key].created_at = now
            /\ key \in 1..MaxKeys =>
                   after[key].value = entered'[category][key][1].value
            /\ \/ Cardinality(DOMAIN after) <= cleanup_threshold
               \/ \A k \in DOMAIN after : ~_is_expired(after[k], now)
            /\ \A k \in DOMAIN before \ DOMAIN after : _is_expired(before[k], now)
            /\ \A k \in (DOMAIN before \cap DOMAIN after) \ {key} :
                   k \notin MaxKeys + 1 .. MaxKeys + cleanup_threshold =>
                       after[k] = before[k]
            /\ other = "schema" => _schema_cache' = _schema_cache
            /\ other = "query" => _query_cache' = _query_cache]_vars

\* a set() has just returned and left more than cleanup_threshold entries,
\* among them the key it set
C32_Witness ==
    /\ _enabled
    /\ returned.op = "set"
    /\ returned.at = now
    /\ returned.key = 1
    /\ Cardinality(DOMAIN _get_cache(returned.category)) > cleanup_threshold
    /\ 1 \in DOMAIN _get_cache(returned.category)

\* ------------------------------------------------------------------------
\* Properties of the normalised results
\* ------------------------------------------------------------------------
\* every row of the result is as long as its column list
Rectangular(result) ==
    \A k \in 1..Len(result.rows) : Len(result.rows[k]) = Len(result.columns)

\* C33: every result a single query returns, and every result query()
\* returns (merged federated results included), has len(row) = len(columns)
\* for every row, also when the backend sends rows without column
\* descriptors.
C33_RowsMatchColumns ==
    /\ \A k \in 1..Len(calls) : ~calls[k].raised => Rectangular(calls[k].result)
    /\ outcome.kind = "return" => Rectangular(outcome.result)

\* the shapes a row of values arrives in: a plain sequence, a mapping, an
\* object with a zero-argument accessor, an object with a list attribute
RowShapes == {"sequence", "dict", "accessor", "list"}

\* C34: normalisation makes of every backend row carrying v1..vn the list
\* [v1..vn], whether it arrives as a plain sequence, as a mapping or behind a
\* zero-argument accessor, and drops no row: the parsed rows are as many as
\* the items, in their order.
C34_RowsNormalised ==
    parsed_rows # None =>
        /\ Len(parsed_rows[1]) = Len(raw_items)
        /\ \A k \in 1..Len(raw_items) :
               raw_items[k].shape \in RowShapes =>
                   parsed_rows[1][k] = raw_items[k].values

\* C35: a scope counted as failed contributes nothing to the federated
\* result: every merged row is a row of a scope counted as successful, the
\* merged columns are those of such a scope, and total_count is the sum over
\* these scopes, also when the scope failed after its response was received.
C35_FailedScopeContributesNothing ==
    FederatedDone =>
        /\ \A i \in 1..Len(outcome.result.rows) :
               \E k \in 1..Len(calls) :
                   /\ Successful(calls[k])
                   /\ \E r \in 1..Len(calls[k].result.rows) :
                          calls[k].result.rows[r] = outcome.result.rows[i]
        /\ outcome.result.columns # <<>> =>
               \E k \in 1..Len(calls) :
                   /\ Successful(calls[k])
                   /\ calls[k].result.columns = outcome.result.columns
        /\ outcome.result.total_count = TotalOfSuccessful(calls)

\* ------------------------------------------------------------------------
\* Progress of the RateLimiter
\* ------------------------------------------------------------------------
\* task i is inside acquire(): waiting for the lock or asleep holding it
InAcquire(i) == callers[i].pc \in {"queued", "backoff", "pacing"}

\* C36: every acquire() call eventually returns, whatever the tasks call on
\* the limiter: a lock that is held is eventually released, and a task that
\* is outside acquire() (running, failed in handle_rate_limit or asleep in
\* its backoff delay) does not hold the lock.
C36_AcquireEventuallyReturns ==
    /\ \A i \in 1..MaxCallers : InAcquire(i) ~> (callers[i].pc = "running")
    /\ (_lock.holder # 0) ~> (_lock.holder = 0)
    /\ [](\A i \in 1..MaxCallers : ~InAcquire(i) => _lock.holder # i)

\* one task has failed in handle_rate_limit and the other waits for the
\* lock, whose holder has since left acquire()
C36_Witness ==
    \E i, j \in 1..MaxCallers :
        /\ callers[i].pc = "raised"
        /\ callers[j].pc = "queued"
        /\ _lock.holder = 0

\* ------------------------------------------------------------------------
\* Properties of concurrent executes and of the context
\* ------------------------------------------------------------------------
\* tasks t and u of the first execute_batch call (the cache was cold when it
\* started) use the cache under one key and have both returned a result,
\* with no time passed on the clock
SameKeyOnColdCache(t, u) ==
    /\ executed = Len(tasks)
    /\ now = Epoch
    /\ tasks[t].request.use_cache /\ tasks[u].request.use_cache
    /\ tasks[t].cache_key # <<>>
    /\ tasks[t].cache_key = tasks[u].cache_key
    /\ tasks[t].phase = "done" /\ tasks[t].returned.kind = "return"
    /\ tasks[u].phase = "done" /\ tasks[u].returned.kind = "return"

\* C37: of the executes of one execute_batch that share a cache key on a
\* cold cache, at most one queries the backend; the others are served from
\* the cache.
C37_OneBackendQueryPerKey ==
    \A t, u \in 1..Len(tasks) :
        (t < u /\ SameKeyOnColdCache(t, u)) =>
            ~(tasks[t].returned.source = "live" /\ tasks[u].returned.source = "live")


\* ------------------------------------------------------------------------
\* Context changes and the cache
\* ------------------------------------------------------------------------
\* the rows of what task t returns in this step
ReturnedRows(t) == tasks'[t].returned.data.rows

\* C38: when an execute is answered from the cache, every row it returns was
\* fetched under the namespace the client has at that moment (the one the
\* last set_namespace left), and, without a scope override, the result was
\* computed for the default scope the client has at that moment; this
\* includes results stored by a call that was suspended in the rate limiter
\* while the context changed.
C38_NoStaleContextFromCache ==
    [][\A t \in 1..MaxExecutes :
          Hits(t) =>
              /\ \A r \in 1..Len(ReturnedRows(t)) : ReturnedRows(t)[r][2] = _namespace
              /\ tasks[t].request.compartment_id = None =>
                    _query_cache[tasks'[t].cache_key].computed_for.compartment_id
                        = _compartment_id
    ]_vars

\* C39: the backend is asked about the effective scope of an execute (the
\* override if one is given, otherwise the default): the scope in the cache
\* key and in the metadata is the scope of every request of a call that does
\* not loop over the compartments, and the call federates exactly when the
\* effective scope is the tenancy and the flag is set.
C39_BackendAskedAboutEffectiveScope ==
    [][\A t \in 1..MaxExecutes :
          Finishes(t) =>
              LET q == tasks[t].request
                  effective == tasks[t].effective_compartment
              IN /\ effective = EffectiveCompartment(q.compartment_id, effective)
                 /\ tasks[t].cache_key =
                       _make_cache_key(q.query, tasks[t].window.start,
                                       tasks[t].window.end, q.include_subcompartments,
                                       Some(effective))
                 /\ tasks'[t].returned.kind = "return" =>
                       tasks'[t].returned.metadata.compartment_id = effective
                 /\ (mode # "direct")
                       <=> (q.include_subcompartments /\ _is_tenancy_ocid(effective))
                 /\ mode \in {"direct", "fallback"} =>
                       \A k \in 1..Len(sent) : sent[k].compartment_id = effective
    ]_vars

====
